---- MODULE Spec2Model ----
(***************************************************************************)
(* Booking-conflict and pricing engine of the parking-space marketplace    *)
(* backend: bookingsController.js, the payments controller, the promo-code *)
(* controller and the Mongoose schemas they write through.                 *)
(*                                                                         *)
(* Instants are integers counting 1/UnitsPerHour of an hour.  Money is an  *)
(* integer counting 1/MoneyScale of a currency unit, so that every product *)
(* and quotient the controllers compute (rate x hours, x percent / 100,    *)
(* x 1.5) is exact.  A Mongoose document keeps only the paths its schema   *)
(* declares: an assignment to any other path is lost at save().            *)
(***************************************************************************)
EXTENDS Integers, Sequences, FiniteSets, TLC

\* ------------------------------------------------------------------ bounds
UnitsPerHour == 2
MaxTime == 3
MaxBookings == 2
MaxPayments == 2
MaxWindows == 3
MaxBatch == 2
MaxApplying == 2
MaxHandling == 2
MaxHandled == 3
MaxRefunds == 3
MaxVehicles == 3
SignificandBits == 3

MoneyScale == 200 * UnitsPerHour
Hours(n) == n * UnitsPerHour
Money(n) == n * MoneyScale
Times == 0..MaxTime

\* A number or id that is absent from a request or a document (undefined /
\* null), and a string that is.
Null == 0 - 1
Undefined == "undefined"
\* The result of arithmetic on undefined (undefined * 50 / 100).
NaN == 0 - 2

CeilDiv(a, b) == (a + b - 1) \div b
Min(a, b) == IF a <= b THEN a ELSE b
Max(a, b) == IF a >= b THEN a ELSE b

\* ------------------------------------------------------- stored documents
\* Users: alice and bob book, olga is the user account of the owner, root
\* is an admin.
Users == {"alice", "bob", "olga", "root"}
user_type == [u \in Users |-> IF u = "root" THEN "admin" ELSE IF u = "olga" THEN "owner" ELSE "user"]

\* Owner documents (their _id is not a user _id).
Owners == {"own1"}
owner_user_id == [o \in Owners |-> "olga"]

\* ParkingSpace documents.
SpaceIds == {1, 2, 3}
parkingSpaceSchema ==
  [sp \in SpaceIds |->
     IF sp = 1 THEN [owner_id |-> "own1", hourly_rate |-> 10, daily_rate |-> 80, monthly_rate |-> 600, status |-> "active"]
     ELSE IF sp = 2 THEN [owner_id |-> "own1", hourly_rate |-> 4, daily_rate |-> 30, monthly_rate |-> 500, status |-> "active"]
     ELSE [owner_id |-> "own1", hourly_rate |-> 6, daily_rate |-> 50, monthly_rate |-> 700, status |-> "maintenance"]]

\* UserVehicle documents.
VehicleIds == {"v1", "v2", "v3"}
userVehicleSchema ==
  [v \in VehicleIds |->
     IF v = "v1" THEN [user_id |-> "alice", is_verified |-> TRUE]
     ELSE IF v = "v2" THEN [user_id |-> "alice", is_verified |-> FALSE]
     ELSE [user_id |-> "bob", is_verified |-> FALSE]]

\* PromoCode documents as an admin created them; "NOPE" is a code no
\* document has, Undefined is a request without promo_code.
PromoCodes == {"PCT20", "FIX40", "USED", "OFF", "FREE2"}
PromoInputs == PromoCodes \cup {"NOPE"}
promoCodeSchema ==
  [c \in PromoCodes |->
     IF c = "PCT20" THEN [promo_type |-> "percentage", discount_value |-> 20, max_discount_amount |-> Money(1),
                          valid_from |-> 1, valid_to |-> MaxTime - 1, usage_limit_total |-> Null, usage_count |-> 0, is_active |-> TRUE]
     ELSE IF c = "FIX40" THEN [promo_type |-> "fixed_amount", discount_value |-> Money(40), max_discount_amount |-> Null,
                          valid_from |-> 0, valid_to |-> MaxTime, usage_limit_total |-> 5, usage_count |-> 0, is_active |-> TRUE]
     ELSE IF c = "USED" THEN [promo_type |-> "percentage", discount_value |-> 50, max_discount_amount |-> Null,
                          valid_from |-> 0, valid_to |-> MaxTime, usage_limit_total |-> 1, usage_count |-> 1, is_active |-> TRUE]
     ELSE IF c = "FREE2" THEN [promo_type |-> "free_hours", discount_value |-> 2, max_discount_amount |-> Null,
                          valid_from |-> 0, valid_to |-> MaxTime, usage_limit_total |-> Null, usage_count |-> 0, is_active |-> TRUE]
     ELSE [promo_type |-> "percentage", discount_value |-> 10, max_discount_amount |-> Null,
                          valid_from |-> 0, valid_to |-> MaxTime, usage_limit_total |-> Null, usage_count |-> 0, is_active |-> FALSE]]

\* Idempotency-Key headers and request bodies, and the entry of a key that
\* the Map does not hold.
IdemKeys == {"k1", "k2"}
IdemBodies == {"body1", "body2"}
NoEntry == [has |-> FALSE, body |-> "", status |-> 0, response |-> 0]

\* ------------------------------------------------------------------ state
VARIABLES
  now,        \* the clock every handler reads with new Date()
  bookings,   \* the Booking collection, a sequence; a booking's _id is its index
  payments,   \* the Payment collection; a payment's _id and transaction id is its index
  promos,     \* the PromoCode collection, code -> document
  refunds,    \* the Refund collection, a sequence
  inflight,   \* createBooking requests between their conflict check and their write
  reply,      \* the last answer of a handler that writes nothing
  availability, \* the SpaceAvailability collection, a sequence; a window's _id is its position
  usages,     \* the PromoCodeUsage collection, a sequence
  applying,   \* applyPromoCode requests between two of their awaits
  idempotencyStore, \* the Map of checkIdempotency, key -> entry
  handling,   \* requests that passed checkIdempotency and whose handler has not answered
  handled,    \* how many times the handler behind checkIdempotency has done its work
  vehicles    \* the UserVehicle collection, a sequence in order of creation; a vehicle's _id is its position

\* What the booking, payment and promo handlers read and write, and the
\* collections they leave alone.
bookingVars == <<now, bookings, payments, promos, refunds, inflight, reply>>
applyVars == <<usages, applying>>
idemVars == <<idempotencyStore, handling, handled>>
otherVars == <<availability, applyVars, idemVars, vehicles>>
vars == <<bookingVars, otherVars>>

BookingIds == 1..Len(bookings)
IdInputs == 1..MaxBookings

\* What a handler answers (the status code, the document it names and two
\* numbers of the body) and what it leaves in the collections.
Result(code, id, val, aux, bs, pays, prs) ==
  [code |-> code, id |-> id, val |-> val, aux |-> aux, bookings |-> bs, payments |-> pays, promos |-> prs,
   refunds |-> refunds]

\* An error response with nothing written.
Reject(code, id) == Result(code, id, 0, 0, bookings, payments, promos)

Unchanged(r) ==
  r.bookings = bookings /\ r.payments = payments /\ r.promos = promos /\ r.refunds = refunds

\* A request is served: the collections become what the handler left.
Serve(r) ==
  /\ bookings' = r.bookings
  /\ payments' = r.payments
  /\ promos' = r.promos
  /\ refunds' = r.refunds
  /\ UNCHANGED <<now, inflight, reply, otherVars>>

\* The answer to a query: the handler, what it was asked and what it said.
Reply(op, promo, space, amount, code, val) == <<op, promo, space, amount, code, val>>
ReplyOp == reply[1]
ReplyPromo == reply[2]
ReplySpace == reply[3]
ReplyAmount == reply[4]
ReplyCode == reply[5]
ReplyVal == reply[6]

\* A query is answered: nothing is written.
Answer(a) ==
  /\ reply' = a
  /\ UNCHANGED <<now, bookings, payments, promos, refunds, inflight, otherVars>>

\* The collections the booking handlers leave alone start empty.
InitOther ==
  /\ availability = <<>>
  /\ usages = <<>>
  /\ applying = {}
  /\ idempotencyStore = [k \in IdemKeys |-> NoEntry]
  /\ handling = {}
  /\ handled = 0
  /\ vehicles = <<>>

Init ==
  /\ InitOther
  /\ now = 0
  /\ bookings = <<>>
  /\ payments = <<>>
  /\ promos = promoCodeSchema
  /\ refunds = <<>>
  /\ inflight = {}
  /\ reply = Reply("none", Undefined, 0, 0, 0, 0)

\* The clock advances between requests.
Tick ==
  /\ now < MaxTime
  /\ now' = now + 1
  /\ UNCHANGED <<bookings, payments, promos, refunds, inflight, reply, otherVars>>

\* ------------------------------------------------------ pure helpers
InactiveStatuses == {"cancelled", "completed", "no_show"}

\* A filter of the first clause alone: a stored booking that starts inside
\* the candidate goes unseen.
ConflictFilterFirstClause(S, E, s, e) == S <= s /\ E > s

\* A filter on closed intervals: touching bookings are selected.
ConflictFilterClosed(S, E, s, e) ==
  \/ (S <= s /\ E >= s)
  \/ (S <= e /\ E >= e)
  \/ (S >= s /\ E <= e)

\* The $or filter of hasBookingConflict on one stored booking [S, E) and the
\* candidate [s, e).
ConflictFilter(S, E, s, e) ==
  \/ (S <= s /\ E > s)
  \/ (S < e /\ E >= e)
  \/ (S >= s /\ E <= e)

\* The bookings of bs that Booking.findOne(filter) may return.
ConflictingBookings(bs, spaceId, startTime, endTime, excludeBookingId) ==
  {i \in 1..Len(bs) :
     /\ bs[i].space_id = spaceId
     /\ bs[i].status \notin InactiveStatuses
     /\ ConflictFilter(bs[i].start_time, bs[i].end_time, startTime, endTime)
     /\ (excludeBookingId # Null => i # excludeBookingId)}

hasBookingConflict(spaceId, startTime, endTime, excludeBookingId) ==
  ConflictingBookings(bookings, spaceId, startTime, endTime, excludeBookingId) # {}

\* A price whose hourly tier ends before 24 hours.
calculateBookingPriceBelow24(parkingSpace, duration) ==
  IF duration < Hours(24)
    THEN parkingSpace.hourly_rate * duration * (MoneyScale \div UnitsPerHour)
  ELSE IF duration <= Hours(24 * 30)
    THEN parkingSpace.daily_rate * CeilDiv(duration, Hours(24)) * MoneyScale
  ELSE parkingSpace.monthly_rate * CeilDiv(duration, Hours(24 * 30)) * MoneyScale

\* calculateBookingPrice; durationHours is duration / UnitsPerHour.
calculateBookingPrice(parkingSpace, duration) ==
  IF duration <= Hours(24)
    THEN parkingSpace.hourly_rate * duration * (MoneyScale \div UnitsPerHour)
  ELSE IF duration <= Hours(24 * 30)
    THEN parkingSpace.daily_rate * CeilDiv(duration, Hours(24)) * MoneyScale
  ELSE parkingSpace.monthly_rate * CeilDiv(duration, Hours(24 * 30)) * MoneyScale

\* PromoCode.findOne({code, is_active: true, valid_from <= now, valid_to >= now})
FindValidPromo(code) ==
  IF /\ code \in PromoCodes
     /\ promos[code].is_active
     /\ promos[code].valid_from <= now
     /\ promos[code].valid_to >= now
    THEN code ELSE Undefined

\* The discount createBooking computes from the promo document: it reads
\* discount_type, a path promoCodeSchema does not declare, so neither branch
\* is taken.
CreateDiscount(promo, totalPrice) ==
  LET discount_type == Undefined
  IN IF discount_type = "percentage"
       THEN LET d == (totalPrice * promo.discount_value) \div 100
            IN IF promo.max_discount_amount # Null /\ promo.max_discount_amount # 0
                 THEN Min(d, promo.max_discount_amount) ELSE d
     ELSE IF discount_type = "fixed" THEN promo.discount_value
     ELSE 0

\* ------------------------------------------------------ createBooking
\* The response code of createBooking up to the conflict check, 0 when the
\* request passes.
CreateValidation(u, space_id, vehicle_id, s, e) ==
  IF s < now THEN 400
  ELSE IF e <= s THEN 400
  ELSE IF space_id \notin SpaceIds THEN 404
  ELSE IF parkingSpaceSchema[space_id].status # "active" THEN 400
  ELSE IF vehicle_id \notin VehicleIds THEN 404
  ELSE IF userVehicleSchema[vehicle_id].user_id # u THEN 403
  ELSE IF ~userVehicleSchema[vehicle_id].is_verified THEN 400
  ELSE 0

NewBooking(u, space_id, vehicle_id, s, e, base, discount, final) ==
  [user_id |-> u, owner_id |-> parkingSpaceSchema[space_id].owner_id,
   space_id |-> space_id, vehicle_id |-> vehicle_id,
   start_time |-> s, end_time |-> e, duration_hours |-> e - s,
   base_price |-> base, discount_amount |-> discount, total_amount |-> final,
   status |-> "pending", payment_status |-> "pending",
   cancellation_reason |-> Undefined]

\* A write that looks for a conflict again before Booking.create.
CreateWriteRechecked(u, space_id, vehicle_id, s, e, promo_code) ==
  LET totalPrice == calculateBookingPrice(parkingSpaceSchema[space_id], e - s)
  IN IF hasBookingConflict(space_id, s, e, Null) THEN Reject(409, 0)
     ELSE Result(201, Len(bookings) + 1, totalPrice, 0,
                 Append(bookings, NewBooking(u, space_id, vehicle_id, s, e, totalPrice, 0, totalPrice)),
                 payments, promos)

\* Everything after the conflict check: price, promo, Booking.create.
CreateWrite(u, space_id, vehicle_id, s, e, promo_code) ==
  LET totalPrice == calculateBookingPrice(parkingSpaceSchema[space_id], e - s)
      promo == IF promo_code = Undefined THEN Undefined ELSE FindValidPromo(promo_code)
      \* max_uses, used_count and min_booking_amount are not paths of
      \* promoCodeSchema: both checks read undefined and pass.
      max_uses == Null
      min_booking_amount == Null
      discountAmount == IF promo = Undefined THEN 0 ELSE CreateDiscount(promos[promo], totalPrice)
      finalPrice == Max(0, totalPrice - discountAmount)
  IN IF promo_code # Undefined /\ promo = Undefined THEN Reject(400, 0)
     ELSE IF promo # Undefined /\ max_uses # Null THEN Reject(400, 0)
     ELSE IF promo # Undefined /\ min_booking_amount # Null THEN Reject(400, 0)
     \* promo.used_count += 1 sets no schema path: promo.save() writes nothing
     ELSE Result(201, Len(bookings) + 1, finalPrice, discountAmount,
                 Append(bookings, NewBooking(u, space_id, vehicle_id, s, e, totalPrice, discountAmount, finalPrice)),
                 payments, promos)

createBookingResult(u, space_id, vehicle_id, s, e, promo_code) ==
  LET v == CreateValidation(u, space_id, vehicle_id, s, e)
  IN IF v # 0 THEN Reject(v, 0)
     ELSE IF hasBookingConflict(space_id, s, e, Null) THEN Reject(409, 0)
     ELSE CreateWrite(u, space_id, vehicle_id, s, e, promo_code)

createBooking(u, space_id, vehicle_id, s, e, promo_code) ==
  /\ Len(bookings) < MaxBookings
  /\ Serve(createBookingResult(u, space_id, vehicle_id, s, e, promo_code))

\* The requests that can write: a user with a vehicle of theirs and an
\* interval that has not started.  (A rejected request writes nothing: it is
\* a stuttering step.)
CreateBookingStep ==
  \E u \in Users, space_id \in SpaceIds, s \in now..MaxTime :
    \E vehicle_id \in {v \in VehicleIds : userVehicleSchema[v].user_id = u}, e \in (s + 1)..MaxTime :
      createBooking(u, space_id, vehicle_id, s, e, Undefined)

\* The same with a promo code.
CreatePromoStep ==
  \E s \in now..MaxTime, promo_code \in PromoInputs :
    \E e \in (s + 1)..MaxTime :
      createBooking("alice", 1, "v1", s, e, promo_code)

\* The life of a single booking starts here.
CreateFirstStep ==
  /\ bookings = <<>>
  /\ CreateBookingStep

\* Two requests in flight: the handler awaits between hasBookingConflict and
\* Booking.create, and another request may run in between.
createBookingCheck(u, space_id, vehicle_id, s, e, promo_code) ==
  /\ Len(bookings) + Cardinality(inflight) < MaxBookings
  /\ CreateValidation(u, space_id, vehicle_id, s, e) = 0
  /\ ~hasBookingConflict(space_id, s, e, Null)
  /\ inflight' = inflight \cup {[u |-> u, space_id |-> space_id, vehicle_id |-> vehicle_id,
                                  s |-> s, e |-> e, promo_code |-> promo_code]}
  /\ UNCHANGED <<now, bookings, payments, promos, refunds, reply, otherVars>>

CreateCheckStep ==
  \E u \in Users, space_id \in SpaceIds, s \in now..MaxTime :
    \E vehicle_id \in {v \in VehicleIds : userVehicleSchema[v].user_id = u}, e \in (s + 1)..MaxTime :
      createBookingCheck(u, space_id, vehicle_id, s, e, Undefined)

InflightWrite(req) ==
  CreateWrite(req.u, req.space_id, req.vehicle_id, req.s, req.e, req.promo_code)

createBookingWrite(req) ==
  LET r == InflightWrite(req)
  IN /\ bookings' = r.bookings
     /\ payments' = r.payments
     /\ promos' = r.promos
     /\ refunds' = r.refunds
     /\ inflight' = inflight \ {req}
     /\ UNCHANGED <<now, reply, otherVars>>

CreateWriteStep ==
  \E req \in inflight : createBookingWrite(req)

\* ------------------------------------------------------ updateBooking
\* The vehicle checks of updateBooking: 0 when they pass.
UpdateVehicleCheck(u, b, vehicle_id) ==
  IF vehicle_id = Undefined \/ vehicle_id = b.vehicle_id THEN 0
  ELSE IF vehicle_id \notin VehicleIds THEN 404
  ELSE IF userVehicleSchema[vehicle_id].user_id # u THEN 403
  ELSE IF ~userVehicleSchema[vehicle_id].is_verified THEN 400
  ELSE 0

\* A date check that lets an empty interval through.
UpdateEndBeforeStart(newStartTime, newEndTime) == newEndTime < newStartTime

\* newEndTime <= newStartTime
UpdateEndNotAfterStart(newStartTime, newEndTime) == newEndTime <= newStartTime

\* start_time and end_time are Null when the request leaves them out.  The
\* handler assigns total_price and final_price, which bookingSchema does not
\* declare: only vehicle_id, start_time and end_time are saved.
updateBookingResult(u, id, start_time, end_time, vehicle_id) ==
  IF id \notin BookingIds THEN Reject(404, id)
  ELSE
    LET b == bookings[id]
        vcheck == UpdateVehicleCheck(u, b, vehicle_id)
        newVehicle == IF vehicle_id = Undefined THEN b.vehicle_id ELSE vehicle_id
        newStartTime == IF start_time # Null THEN start_time ELSE b.start_time
        newEndTime == IF end_time # Null THEN end_time ELSE b.end_time
        dates == start_time # Null \/ end_time # Null
    IN IF b.user_id # u /\ user_type[u] # "admin" THEN Reject(403, id)
       ELSE IF b.status \notin {"pending", "confirmed"} THEN Reject(400, id)
       ELSE IF vcheck # 0 THEN Reject(vcheck, id)
       ELSE IF dates /\ newStartTime < now THEN Reject(400, id)
       ELSE IF dates /\ UpdateEndNotAfterStart(newStartTime, newEndTime) THEN Reject(400, id)
       ELSE IF dates /\ hasBookingConflict(b.space_id, newStartTime, newEndTime, id) THEN Reject(409, id)
       ELSE Result(200, id, b.total_amount, 0,
                   [bookings EXCEPT ![id] = [b EXCEPT !.vehicle_id = newVehicle,
                                                      !.start_time = newStartTime,
                                                      !.end_time = newEndTime]],
                   payments, promos)

updateBooking(u, id, start_time, end_time, vehicle_id) ==
  Serve(updateBookingResult(u, id, start_time, end_time, vehicle_id))

UpdateBookingStep ==
  \E id \in BookingIds :
    \/ \E start_time \in (now..MaxTime) \cup {Null}, end_time \in (now..MaxTime) \cup {Null} :
         updateBooking(bookings[id].user_id, id, start_time, end_time, Undefined)
    \/ \E u \in Users, vehicle_id \in VehicleIds :
         updateBooking(u, id, Null, Null, vehicle_id)

\* ------------------------------------------------------ cancelBooking
\* The refund percentage of the cancellation policy at instant t.
RefundPercentage(start_time, t) ==
  IF t >= start_time THEN 0
  ELSE IF start_time - t > Hours(48) THEN 100
  ELSE IF start_time - t > Hours(24) THEN 50
  ELSE 0

\* refundAmount: booking.final_price is no path of bookingSchema, so the
\* product is taken of undefined.
RefundAmount(b, t) ==
  LET final_price == NaN
  IN IF t >= b.start_time THEN 0
     ELSE IF final_price = NaN THEN NaN
     ELSE (final_price * RefundPercentage(b.start_time, t)) \div 100

\* The document Refund.create is given, as refundSchema reads it: amount,
\* reason, user_id and initiated_by are no paths of the schema, and
\* payment_id, refund_amount and refund_reason are not given.
CancelRefund(id) ==
  [booking_id |-> id, payment_id |-> Undefined, refund_amount |-> Undefined,
   refund_reason |-> Undefined, status |-> "pending"]

\* The required paths of refundSchema.
RefundValid(doc) ==
  /\ doc.payment_id # Undefined
  /\ doc.booking_id # Undefined
  /\ doc.refund_amount # Undefined
  /\ doc.refund_reason # Undefined

\* payment_status 'completed' is no value of bookingSchema's enum; were it
\* met, Refund.create would throw on the required paths and the handler
\* answer 500 before booking.save().
cancelBookingResult(u, id, cancellation_reason) ==
  IF id \notin BookingIds THEN Reject(404, id)
  ELSE
    LET b == bookings[id]
        refundAmount == RefundAmount(b, now)
        refundPercentage == RefundPercentage(b.start_time, now)
    IN IF b.user_id # u /\ user_type[u] # "admin" /\ b.owner_id # u THEN Reject(403, id)
       ELSE IF b.status \in InactiveStatuses THEN Reject(400, id)
       ELSE
         LET createsRefund == b.payment_status = "completed" /\ refundAmount # NaN /\ refundAmount > 0
         IN IF createsRefund /\ ~RefundValid(CancelRefund(id)) THEN Reject(500, id)
            ELSE [Result(200, id, refundAmount, refundPercentage,
                         [bookings EXCEPT ![id] =
                            [b EXCEPT !.status = "cancelled",
                                      !.cancellation_reason =
                                         IF cancellation_reason = Undefined THEN "User cancelled"
                                         ELSE cancellation_reason]],
                         payments, promos)
                    EXCEPT !.refunds = IF createsRefund THEN Append(refunds, CancelRefund(id))
                                       ELSE refunds]

cancelBooking(u, id, cancellation_reason) ==
  Serve(cancelBookingResult(u, id, cancellation_reason))

CancelBookingStep ==
  \E u \in Users, id \in BookingIds : cancelBooking(u, id, Undefined)

\* ------------------------------------------------------ checkIn / checkOut
IsOwnerOrAdmin(u, b) ==
  user_type[u] = "admin" \/ owner_user_id[b.owner_id] = u

\* booking.verification_code: no path of bookingSchema and written by no
\* handler, so it reads undefined on every booking.
StoredVerificationCode(b) == Undefined

\* A window that closes at the start time.
CheckInTooLateAtStart(b, t) == t > b.start_time

\* now < earlyCheckIn and now > lateCheckIn.
CheckInTooEarly(b, t) == t < b.start_time - Hours(1)
CheckInTooLate(b, t) == t > b.start_time + Hours(1)

\* The code check reads an undefined stored code and is skipped.
\* actual_start_time is not saved.
checkInResult(u, id, verification_code) ==
  IF id \notin BookingIds THEN Reject(404, id)
  ELSE
    LET b == bookings[id]
        stored_code == StoredVerificationCode(b)
    IN IF ~IsOwnerOrAdmin(u, b) THEN Reject(403, id)
       ELSE IF b.status # "confirmed" THEN Reject(400, id)
       ELSE IF CheckInTooEarly(b, now) THEN Reject(400, id)
       ELSE IF CheckInTooLate(b, now)
         THEN Result(400, id, 0, 0, [bookings EXCEPT ![id].status = "no_show"], payments, promos)
       ELSE IF verification_code # Undefined /\ stored_code # Undefined /\ verification_code # stored_code
         THEN Reject(400, id)
       ELSE Result(200, id, 0, 0, [bookings EXCEPT ![id].status = "active"], payments, promos)

checkIn(u, id, verification_code) ==
  Serve(checkInResult(u, id, verification_code))

CheckInStep ==
  \E u \in Users, id \in BookingIds, verification_code \in {Undefined, "1234"} :
    checkIn(u, id, verification_code)

\* overtimeHours * hourly_rate * 1.5
OvertimeCharge(b, t) ==
  IF t > b.end_time
    THEN (CeilDiv(t - b.end_time, UnitsPerHour) * parkingSpaceSchema[b.space_id].hourly_rate * 3 * MoneyScale) \div 2
    ELSE 0

\* overtime_charge, final_price and actual_end_time are no paths of
\* bookingSchema: save() writes the status alone.
checkOutResult(u, id) ==
  IF id \notin BookingIds THEN Reject(404, id)
  ELSE
    LET b == bookings[id]
        overtimeCharge == OvertimeCharge(b, now)
    IN IF ~IsOwnerOrAdmin(u, b) THEN Reject(403, id)
       ELSE IF b.status # "active" THEN Reject(400, id)
       ELSE Result(200, id, overtimeCharge, 0, [bookings EXCEPT ![id].status = "completed"], payments, promos)

checkOut(u, id) == Serve(checkOutResult(u, id))

CheckOutStep ==
  \E u \in Users, id \in BookingIds : checkOut(u, id)

\* ------------------------------------------------------ extendBooking
\* booking.extensions as a stored booking gives it back: no path of
\* bookingSchema, so the pushed record is not saved and the list is absent.
StoredExtensions(b) == <<>>

\* A conflict check of the interval the booking already has.
ExtendConflictStoredInterval(b, id, new_end_time) ==
  hasBookingConflict(b.space_id, b.start_time, b.end_time, id)

\* The conflict check of the added interval [end_time, new_end_time).
ExtendConflict(b, id, new_end_time) ==
  hasBookingConflict(b.space_id, b.end_time, new_end_time, id)

\* total_price, final_price and extensions are no paths of bookingSchema:
\* save() writes end_time alone.
extendBookingResult(u, id, new_end_time) ==
  IF id \notin BookingIds THEN Reject(404, id)
  ELSE
    LET b == bookings[id]
        extensionPrice == calculateBookingPrice(parkingSpaceSchema[b.space_id], new_end_time - b.end_time)
    IN IF b.user_id # u /\ user_type[u] # "admin" THEN Reject(403, id)
       ELSE IF b.status \notin {"confirmed", "active"} THEN Reject(400, id)
       ELSE IF new_end_time <= b.end_time THEN Reject(400, id)
       ELSE IF new_end_time <= now THEN Reject(400, id)
       ELSE IF ExtendConflict(b, id, new_end_time) THEN Reject(409, id)
       ELSE Result(200, id, extensionPrice, b.end_time,
                   [bookings EXCEPT ![id].end_time = new_end_time], payments, promos)

extendBooking(u, id, new_end_time) ==
  Serve(extendBookingResult(u, id, new_end_time))

ExtendBookingStep ==
  \E u \in Users, id \in BookingIds, new_end_time \in now..MaxTime :
    extendBooking(u, id, new_end_time)

\* ------------------------------------------------------ payments
PaymentIds == 1..Len(payments)

\* What every payment success does to the booking.
MarkPaid(bs, id) ==
  IF id \in 1..Len(bs)
    THEN [bs EXCEPT ![id] = [@ EXCEPT !.payment_status = "paid", !.status = "confirmed"]]
    ELSE bs

\* paymentSuccess is the simulated gateway's answer.
processPaymentResult(u, booking_id, amount, paymentSuccess) ==
  IF amount = 0 THEN Reject(400, booking_id)
  ELSE IF booking_id \notin BookingIds THEN Reject(404, booking_id)
  ELSE
    LET b == bookings[booking_id]
    IN IF b.user_id # u /\ user_type[u] # "admin" THEN Reject(403, booking_id)
       ELSE IF b.payment_status = "paid" THEN Reject(409, booking_id)
       ELSE IF amount # b.total_amount THEN Reject(400, booking_id)
       ELSE Result(IF paymentSuccess THEN 201 ELSE 200, booking_id, amount, Len(payments) + 1,
                   IF paymentSuccess THEN MarkPaid(bookings, booking_id) ELSE bookings,
                   Append(payments,
                     [booking_id |-> booking_id, user_id |-> u, amount |-> amount,
                      payment_status |-> IF paymentSuccess THEN "succeeded" ELSE "failed"]),
                   promos)

processPayment(u, booking_id, amount, paymentSuccess) ==
  /\ Len(payments) < MaxPayments
  /\ Serve(processPaymentResult(u, booking_id, amount, paymentSuccess))

PaymentAmounts(booking_id) ==
  {0, Money(1)} \cup {bookings[i].total_amount : i \in BookingIds \cap {booking_id}}

\* The users who pay: the booking's user and another user, who is refused.
PaymentUsers == {"alice", "bob"}
ProcessPaymentStep ==
  \E u \in PaymentUsers, booking_id \in BookingIds, paymentSuccess \in BOOLEAN :
    \E amount \in PaymentAmounts(booking_id) :
      processPayment(u, booking_id, amount, paymentSuccess)

\* The payments the gateway accepts.
PaymentSuccessStep ==
  \E u \in PaymentUsers, booking_id \in BookingIds :
    \E amount \in PaymentAmounts(booking_id) :
      processPayment(u, booking_id, amount, TRUE)

\* A payment's provider_transaction_id is modelled by its index.
verifyPaymentResult(u, id, provider_transaction_id) ==
  IF id \notin PaymentIds THEN Reject(404, 0)
  ELSE
    LET p == payments[id]
    IN IF p.user_id # u /\ user_type[u] # "admin" THEN Reject(403, p.booking_id)
       ELSE IF p.payment_status = "succeeded"
         THEN Result(200, p.booking_id, p.amount, id, bookings, payments, promos)
       ELSE IF provider_transaction_id = id
         THEN Result(200, p.booking_id, p.amount, id, MarkPaid(bookings, p.booking_id),
                     [payments EXCEPT ![id].payment_status = "succeeded"], promos)
       ELSE Reject(400, p.booking_id)

verifyPayment(u, id, provider_transaction_id) ==
  Serve(verifyPaymentResult(u, id, provider_transaction_id))

VerifyPaymentStep ==
  \E u \in Users, id \in PaymentIds, provider_transaction_id \in 1..(MaxPayments + 1) :
    verifyPayment(u, id, provider_transaction_id)

WebhookStatus(event_type, current) ==
  IF event_type \in {"payment.succeeded", "charge.succeeded"} THEN "succeeded"
  ELSE IF event_type \in {"payment.failed", "charge.failed"} THEN "failed"
  ELSE IF event_type \in {"payment.refunded", "charge.refunded"} THEN "refunded"
  ELSE current

paymentWebhookResult(event_type, transaction_id) ==
  IF transaction_id \notin PaymentIds THEN Result(200, 0, 0, 0, bookings, payments, promos)
  ELSE
    LET p == payments[transaction_id]
        updatedStatus == WebhookStatus(event_type, p.payment_status)
    IN Result(200, p.booking_id, 0, transaction_id,
              IF updatedStatus = "succeeded" THEN MarkPaid(bookings, p.booking_id) ELSE bookings,
              [payments EXCEPT ![transaction_id].payment_status = updatedStatus], promos)

paymentWebhook(event_type, transaction_id) ==
  Serve(paymentWebhookResult(event_type, transaction_id))

WebhookEvents == {"payment.succeeded", "charge.failed", "payment.refunded", "customer.created"}
PaymentWebhookStep ==
  \E event_type \in WebhookEvents, transaction_id \in PaymentIds :
    paymentWebhook(event_type, transaction_id)

\* ------------------------------------------------------ validatePromoCode
\* A discount without the cap of a fixed amount at the booking amount.
ValidateDiscountUncapped(promoCode, booking_amount) ==
  IF promoCode.promo_type = "percentage"
    THEN (booking_amount * promoCode.discount_value) \div 100
    ELSE promoCode.discount_value

\* The discount validatePromoCode reports for a promo document.
ValidateDiscount(promoCode, booking_amount) ==
  IF promoCode.promo_type = "percentage"
    THEN LET d == (booking_amount * promoCode.discount_value) \div 100
         IN IF promoCode.max_discount_amount # Null /\ promoCode.max_discount_amount # 0
               /\ d > promoCode.max_discount_amount
              THEN promoCode.max_discount_amount ELSE d
  ELSE IF promoCode.promo_type = "fixed_amount"
    THEN IF promoCode.discount_value > booking_amount THEN booking_amount ELSE promoCode.discount_value
  ELSE IF promoCode.promo_type = "free_hours" THEN promoCode.discount_value
  ELSE 0

UsageLimitReached(promoCode) ==
  /\ promoCode.usage_limit_total # Null
  /\ promoCode.usage_limit_total # 0
  /\ promoCode.usage_count >= promoCode.usage_limit_total

validatePromoCodeResult(code, booking_amount) ==
  IF code \notin PromoCodes THEN Reject(404, 0)
  ELSE
    LET promoCode == promos[code]
    IN IF ~promoCode.is_active THEN Reject(400, 0)
       ELSE IF now < promoCode.valid_from THEN Reject(400, 0)
       ELSE IF now > promoCode.valid_to THEN Reject(400, 0)
       ELSE IF UsageLimitReached(promoCode) THEN Reject(400, 0)
       ELSE Result(200, 0, ValidateDiscount(promoCode, booking_amount), booking_amount,
                   bookings, payments, promos)

validatePromoCode(code, booking_amount) ==
  LET r == validatePromoCodeResult(code, booking_amount)
  IN Answer(Reply("validatePromoCode", code, 0, booking_amount, r.code, r.val))

AmountInputs == {Money(10), Money(30), Money(50)}

ValidatePromoCodeStep ==
  \E code \in PromoInputs, booking_amount \in AmountInputs : validatePromoCode(code, booking_amount)

\* ------------------------------------------------------ pricing alone
\* calculateBookingPrice on durations around the tier boundaries.
PriceDurations ==
  (1..Hours(6)) \cup ((Hours(24) - 3)..(Hours(24) + 3)) \cup ((Hours(48) - 2)..(Hours(48) + 2))
    \cup ((Hours(720) - 3)..(Hours(720) + 3)) \cup ((Hours(1440) - 2)..(Hours(1440) + 2))

PriceStep ==
  \E space_id \in SpaceIds, duration \in PriceDurations :
    Answer(Reply("calculateBookingPrice", Undefined, space_id, duration, 200,
                 calculateBookingPrice(parkingSpaceSchema[space_id], duration)))

\* ------------------------------------------------------ availability
\* A JSON value given for day_of_week: a number, a string of digits, or none.
JsonNumber(n) == [type |-> "number", n |-> n]
JsonString(n) == [type |-> "string", n |-> n]
JsonAbsent == [type |-> "undefined", n |-> 0]

\* Mongoose casts a query or document value of a Number path.
CastNumber(v) == v.n

\* stored === given, with no cast: a string never equals a stored number.
StrictEquals(stored, v) == v.type = "number" /\ v.n = stored

\* A time of day "HH:MM" is the pair of its two numbers; a time that is not
\* given is the empty tuple.
NoTime == <<>>
toMinutes(time) == time[1] * 60 + time[2]

\* A conflict test on closed ranges: touching windows conflict.
hasTimeConflictClosed(start1, end1, start2, end2) ==
  toMinutes(start1) <= toMinutes(end2) /\ toMinutes(end1) >= toMinutes(start2)

\* s1 < e2 && e1 > s2
hasTimeConflict(start1, end1, start2, end2) ==
  toMinutes(start1) < toMinutes(end2) /\ toMinutes(end1) > toMinutes(start2)

\* The validators of spaceAvailabilitySchema on a document after casting.
TimeFormatValid(v) == v # NoTime /\ v[1] \in 0..23 /\ v[2] \in 0..59
AvailabilityValid(doc) ==
  /\ doc.day_of_week \in 0..6
  /\ TimeFormatValid(doc.available_from)
  /\ TimeFormatValid(doc.available_to)

\* The windows in the collection.  No request holds an _id from one request
\* to the next, so a window is named by its position in the collection.
AvailabilityIds == 1..Len(availability)

\* findByIdAndDelete
RemoveAt(s, i) == SubSeq(s, 1, i - 1) \o SubSeq(s, i + 1, Len(s))

NewAvailability(spaceId, day_of_week, available_from, available_to) ==
  [space_id |-> spaceId, day_of_week |-> CastNumber(day_of_week),
   available_from |-> available_from, available_to |-> available_to]

\* Owner.findOne({ user_id }) and the comparison with the space's owner_id.
ManagesSpace(u, spaceId) ==
  \/ user_type[u] = "admin"
  \/ \E o \in Owners : owner_user_id[o] = u /\ parkingSpaceSchema[spaceId].owner_id = o

\* What an availability handler answers and leaves in the collection:
\* created holds the ids of the windows it created, errors its error entries.
AvResult(code, av, created, errors) ==
  [code |-> code, availability |-> av, created |-> created, errors |-> errors]

AvReject(code) == AvResult(code, availability, <<>>, <<>>)

ServeAvailability(r) ==
  /\ availability' = r.availability
  /\ UNCHANGED <<bookingVars, applyVars, idemVars, vehicles>>

\* SpaceAvailability.find({ space_id, day_of_week }) with an optional $ne id.
SchedulesOf(spaceId, day_of_week, excludeId) ==
  {i \in AvailabilityIds :
     /\ availability[i].space_id = spaceId
     /\ availability[i].day_of_week = CastNumber(day_of_week)
     /\ i # excludeId}

createAvailabilityResult(u, spaceId, day_of_week, available_from, available_to) ==
  IF spaceId \notin SpaceIds THEN AvReject(404)
  ELSE IF ~ManagesSpace(u, spaceId) THEN AvReject(403)
  ELSE IF toMinutes(available_from) >= toMinutes(available_to) THEN AvReject(400)
  ELSE IF \E i \in SchedulesOf(spaceId, day_of_week, 0) :
            hasTimeConflict(available_from, available_to,
                            availability[i].available_from, availability[i].available_to)
    THEN AvReject(409)
  ELSE
    LET doc == NewAvailability(spaceId, day_of_week, available_from, available_to)
    IN IF ~AvailabilityValid(doc) THEN AvReject(400)
       ELSE AvResult(201, Append(availability, doc), <<Len(availability) + 1>>, <<>>)

createAvailability(u, spaceId, day_of_week, available_from, available_to) ==
  ServeAvailability(createAvailabilityResult(u, spaceId, day_of_week, available_from, available_to))

\* day_of_week is JsonAbsent and a time NoTime when the request leaves it out.
updateAvailabilityResult(u, id, day_of_week, available_from, available_to) ==
  IF id \notin AvailabilityIds THEN AvReject(404)
  ELSE
    LET a == availability[id]
        newFrom == IF available_from = NoTime THEN a.available_from ELSE available_from
        newTo == IF available_to = NoTime THEN a.available_to ELSE available_to
        newDay == IF day_of_week = JsonAbsent THEN JsonNumber(a.day_of_week) ELSE day_of_week
        doc == [a EXCEPT !.day_of_week = CastNumber(newDay),
                         !.available_from = newFrom, !.available_to = newTo]
    IN IF ~ManagesSpace(u, a.space_id) THEN AvReject(403)
       ELSE IF toMinutes(newFrom) >= toMinutes(newTo) THEN AvReject(400)
       ELSE IF \E i \in SchedulesOf(a.space_id, newDay, id) :
                 hasTimeConflict(newFrom, newTo,
                                 availability[i].available_from, availability[i].available_to)
         THEN AvReject(409)
       ELSE IF ~AvailabilityValid(doc) THEN AvReject(400)
       ELSE AvResult(200, [availability EXCEPT ![id] = doc], <<>>, <<>>)

updateAvailability(u, id, day_of_week, available_from, available_to) ==
  ServeAvailability(updateAvailabilityResult(u, id, day_of_week, available_from, available_to))

deleteAvailabilityResult(u, id) ==
  IF id \notin AvailabilityIds THEN AvReject(404)
  ELSE IF ~ManagesSpace(u, availability[id].space_id) THEN AvReject(403)
  ELSE AvResult(200, RemoveAt(availability, id), <<>>, <<>>)

deleteAvailability(u, id) == ServeAvailability(deleteAvailabilityResult(u, id))

\* The error of entry schedule of a bulk request, "" when it is created: av
\* is the collection and created the ids of the windows the request has
\* created so far; existingSchedules is read once, before the loop.
BulkEntryError(spaceId, schedule, av, created) ==
  LET day_of_week == schedule.day_of_week
      available_from == schedule.available_from
      available_to == schedule.available_to
  IN IF day_of_week = JsonAbsent \/ available_from = NoTime \/ available_to = NoTime
       THEN "Missing required fields"
     ELSE IF toMinutes(available_from) >= toMinutes(available_to)
       THEN "available_from must be before available_to"
     ELSE IF \E e \in AvailabilityIds :
               /\ availability[e].space_id = spaceId
               /\ StrictEquals(availability[e].day_of_week, day_of_week)
               /\ hasTimeConflict(available_from, available_to,
                                  availability[e].available_from, availability[e].available_to)
       THEN "Conflicts with existing schedule"
     ELSE IF \E k \in 1..Len(created) :
               /\ StrictEquals(av[created[k]].day_of_week, day_of_week)
               /\ hasTimeConflict(available_from, available_to,
                                  av[created[k]].available_from, av[created[k]].available_to)
       THEN "Conflicts with another schedule in this bulk request"
     ELSE IF ~AvailabilityValid(NewAvailability(spaceId, day_of_week, available_from, available_to))
       THEN "ValidationError"
     ELSE ""

\* The loop over schedules from entry i on (entries count from 1 here, the
\* index of an error entry from 0 as in the answer).
RECURSIVE BulkLoop(_, _, _, _, _, _)
BulkLoop(spaceId, schedules, i, av, created, errors) ==
  IF i > Len(schedules) THEN AvResult(201, av, created, errors)
  ELSE
    LET schedule == schedules[i]
        err == BulkEntryError(spaceId, schedule, av, created)
    IN IF err # ""
         THEN BulkLoop(spaceId, schedules, i + 1, av, created,
                       Append(errors, [index |-> i - 1, error |-> err]))
         ELSE BulkLoop(spaceId, schedules, i + 1,
                       Append(av, NewAvailability(spaceId, schedule.day_of_week,
                                                  schedule.available_from, schedule.available_to)),
                       Append(created, Len(av) + 1), errors)

bulkCreateAvailabilityResult(u, spaceId, schedules) ==
  IF Len(schedules) = 0 THEN AvReject(400)
  ELSE IF spaceId \notin SpaceIds THEN AvReject(404)
  ELSE IF ~ManagesSpace(u, spaceId) THEN AvReject(403)
  ELSE BulkLoop(spaceId, schedules, 1, availability, <<>>, <<>>)

bulkCreateAvailability(u, spaceId, schedules) ==
  ServeAvailability(bulkCreateAvailabilityResult(u, spaceId, schedules))

\* The requests of the availability steps: two spaces, two days (day 1 also
\* as a string), four times of day and one that is no time of day.
AvUsers == {"olga", "alice"}
AvSpaces == {1, 2}
AvDays == {JsonNumber(1), JsonNumber(2), JsonString(1)}
AvTimes == {<<9, 0>>, <<11, 0>>, <<12, 0>>, <<14, 0>>}
AvBadTime == <<24, 0>>
AvEntries ==
  {[day_of_week |-> d, available_from |-> f, available_to |-> to] :
     d \in AvDays, f \in AvTimes, to \in AvTimes \cup {AvBadTime}}
    \cup {[day_of_week |-> JsonAbsent, available_from |-> <<9, 0>>, available_to |-> <<11, 0>>],
          [day_of_week |-> JsonNumber(1), available_from |-> NoTime, available_to |-> <<11, 0>>]}
AvBatches == {<<>>} \cup {<<x>> : x \in AvEntries} \cup {<<x, y>> : x \in AvEntries, y \in AvEntries}

CreateAvailabilityStep ==
  /\ Len(availability) < MaxWindows
  /\ \E u \in AvUsers, spaceId \in AvSpaces, day_of_week \in AvDays :
       \E available_from \in AvTimes, available_to \in AvTimes \cup {AvBadTime} :
         createAvailability(u, spaceId, day_of_week, available_from, available_to)

UpdateAvailabilityStep ==
  \E id \in AvailabilityIds :
    \/ \E day_of_week \in AvDays \cup {JsonAbsent} :
         \E available_from \in AvTimes \cup {NoTime}, available_to \in AvTimes \cup {NoTime} :
           updateAvailability("olga", id, day_of_week, available_from, available_to)
    \/ updateAvailability("alice", id, JsonAbsent, NoTime, <<14, 0>>)

DeleteAvailabilityStep ==
  \E u \in AvUsers, id \in AvailabilityIds : deleteAvailability(u, id)

BulkCreateAvailabilityStep ==
  /\ Len(availability) + MaxBatch <= MaxWindows
  /\ \E u \in AvUsers, spaceId \in AvSpaces, schedules \in AvBatches :
       bulkCreateAvailability(u, spaceId, schedules)

\* ------------------------------------------------------ applyPromoCode
\* code.toUpperCase() on the codes of the requests.
toUpperCase(code) ==
  IF code = "fix40" THEN "FIX40" ELSE IF code = "used" THEN "USED" ELSE code

\* The requests: a booking_id is any id, no booking is looked up, and
\* discount_applied is a number (0 - 1 fails the schema's min).
ApplyCodes == {"fix40", "USED", "used", "OFF", "NOPE"}
ApplyBookingIds == {1, 2}
ApplyDiscounts == {Money(1), 0 - 1}

\* What one step of applyPromoCode answers (code 0: the request goes on to
\* its next await, at "check", "create" or "save") and leaves behind.
ApplyResult(code, pc, promoCode, pcs, us) ==
  [code |-> code, pc |-> pc, promoCode |-> promoCode, promos |-> pcs, usages |-> us]

ApplyReject(code) == ApplyResult(code, "done", Null, promos, usages)

\* The usage records of a booking.
UsagesOf(booking_id) == {k \in 1..Len(usages) : usages[k].booking_id = booking_id}

\* Up to the first await's answer: PromoCode.findOne gives the request its
\* own copy of the document.
applyFindResult(code) ==
  IF toUpperCase(code) \notin PromoCodes THEN ApplyReject(404)
  ELSE ApplyResult(0, "check", promos[toUpperCase(code)], promos, usages)

\* PromoCodeUsage.findOne({ booking_id }) and the checks on the copy.
applyCheckResult(req) ==
  LET promoCode == req.promoCode
  IN IF UsagesOf(req.booking_id) # {} THEN ApplyReject(409)
     ELSE IF ~promoCode.is_active THEN ApplyReject(400)
     ELSE IF now < promoCode.valid_from \/ now > promoCode.valid_to THEN ApplyReject(400)
     ELSE IF promoCode.usage_limit_total # Null /\ promoCode.usage_count >= promoCode.usage_limit_total
       THEN ApplyReject(400)
     ELSE ApplyResult(0, "create", promoCode, promos, usages)

\* A create on a collection without the unique index.
applyCreateUnindexed(req) ==
  IF req.discount_applied < 0 THEN ApplyReject(400)
  ELSE ApplyResult(0, "save", req.promoCode, promos,
                   Append(usages, [promo_code_id |-> req.code, user_id |-> req.u,
                                   booking_id |-> req.booking_id,
                                   discount_applied |-> req.discount_applied]))

\* PromoCodeUsage.create: the unique index on booking_id answers E11000,
\* which errorHandler turns into 409; a negative discount_applied fails
\* validation, 400.
applyCreateResult(req) ==
  IF req.discount_applied < 0 THEN ApplyReject(400)
  ELSE IF UsagesOf(req.booking_id) # {} THEN ApplyReject(409)
  ELSE ApplyResult(0, "save", req.promoCode, promos,
                   Append(usages, [promo_code_id |-> req.code, user_id |-> req.u,
                                   booking_id |-> req.booking_id,
                                   discount_applied |-> req.discount_applied]))

\* promoCode.usage_count += 1 on the copy, and save(), which sets the
\* stored count to the copy's.
applySaveResult(req) ==
  ApplyResult(200, "done", req.promoCode,
              [promos EXCEPT ![req.code].usage_count = req.promoCode.usage_count + 1], usages)

applyStepResult(req) ==
  IF req.pc = "check" THEN applyCheckResult(req)
  ELSE IF req.pc = "create" THEN applyCreateResult(req)
  ELSE applySaveResult(req)

ApplyUnchanged ==
  UNCHANGED <<now, bookings, payments, refunds, inflight, reply, availability, idemVars, vehicles>>

\* A request arrives and runs to its first await.
applyPromoCodeFind(u, code, booking_id, discount_applied) ==
  LET r == applyFindResult(code)
      rid == CHOOSE n \in 1..MaxApplying : \A q \in applying : q.rid # n
  IN /\ Cardinality(applying) < MaxApplying
     /\ applying' = IF r.code = 0
                      THEN applying \cup {[rid |-> rid, u |-> u, code |-> toUpperCase(code),
                                           booking_id |-> booking_id,
                                           discount_applied |-> discount_applied,
                                           pc |-> r.pc, promoCode |-> r.promoCode]}
                      ELSE applying
     /\ UNCHANGED <<promos, usages>>
     /\ ApplyUnchanged

\* A request runs from one await to the next, or to its answer.
applyPromoCodeStep(req) ==
  LET r == applyStepResult(req)
  IN /\ promos' = r.promos
     /\ usages' = r.usages
     /\ applying' = IF r.code = 0
                      THEN (applying \ {req}) \cup {[req EXCEPT !.pc = r.pc, !.promoCode = r.promoCode]}
                      ELSE applying \ {req}
     /\ ApplyUnchanged

ApplyFindStep ==
  \E u \in {"alice", "bob"}, code \in ApplyCodes, booking_id \in ApplyBookingIds,
     discount_applied \in ApplyDiscounts :
    applyPromoCodeFind(u, code, booking_id, discount_applied)

ApplyCheckStep == \E req \in applying : req.pc = "check" /\ applyPromoCodeStep(req)
ApplyCreateStep == \E req \in applying : req.pc = "create" /\ applyPromoCodeStep(req)
ApplySaveStep == \E req \in applying : req.pc = "save" /\ applyPromoCodeStep(req)

\* Promo codes that nobody has applied yet.
InitApply ==
  /\ InitOther
  /\ now = 0
  /\ bookings = <<>>
  /\ payments = <<>>
  /\ promos = [c \in PromoCodes |-> [promoCodeSchema[c] EXCEPT !.usage_count = 0]]
  /\ refunds = <<>>
  /\ inflight = {}
  /\ reply = Reply("none", Undefined, 0, 0, 0, 0)

\* ------------------------------------------------------ checkIdempotency
\* What checkIdempotency answers by itself: status 0 when it calls next().
\* JSON.stringify(stored.body) === JSON.stringify(req.body) on bodies that
\* are strings here.
checkIdempotencyResult(key, body) ==
  LET stored == idempotencyStore[key]
  IN IF ~stored.has THEN [status |-> 0, response |-> 0]
     ELSE IF stored.body = body THEN [status |-> stored.status, response |-> stored.response]
     ELSE [status |-> 409, response |-> 0]

IdemUnchanged == UNCHANGED <<bookingVars, availability, applyVars, vehicles>>

\* A request with an Idempotency-Key arrives: the middleware answers by
\* itself, or calls next() and the handler starts and runs to its first await.
checkIdempotency(key, body) ==
  LET r == checkIdempotencyResult(key, body)
      rid == CHOOSE n \in 1..MaxHandling : \A q \in handling : q.rid # n
  IN /\ Cardinality(handling) < MaxHandling
     /\ handling' = IF r.status = 0 THEN handling \cup {[rid |-> rid, key |-> key, body |-> body]}
                    ELSE handling
     /\ UNCHANGED <<idempotencyStore, handled>>
     /\ IdemUnchanged

\* The handler does its work and answers: the overridden res.send stores
\* body, status and response under the key.  The response names the work
\* done (the n-th document created).
handlerSend(req) ==
  /\ handled < MaxHandled
  /\ handled' = handled + 1
  /\ idempotencyStore' = [idempotencyStore EXCEPT ![req.key] =
                            [has |-> TRUE, body |-> req.body, status |-> 201, response |-> handled + 1]]
  /\ handling' = handling \ {req}
  /\ IdemUnchanged

\* The setTimeout of an earlier send fires.
idempotencyExpire(key) ==
  /\ idempotencyStore[key].has
  /\ idempotencyStore' = [idempotencyStore EXCEPT ![key] = NoEntry]
  /\ UNCHANGED <<handling, handled>>
  /\ IdemUnchanged

CheckIdempotencyStep == \E key \in IdemKeys, body \in IdemBodies : checkIdempotency(key, body)
HandlerSendStep == \E req \in handling : handlerSend(req)
IdempotencyExpireStep == \E key \in IdemKeys : idempotencyExpire(key)

\* ------------------------------------------------------ refund requests
\* refund_amount and total_amount are Numbers: binary floating point, a
\* significand below 2^SignificandBits times a power of two (a double has
\* 53 bits). An amount n here is n times the smallest power of two in play.
RECURSIVE BitLength(_)
BitLength(n) == IF n = 0 THEN 0 ELSE 1 + BitLength(n \div 2)

\* The nearest Number to x, a tie going to the even significand.
RoundNumber(x) ==
  LET a == IF x < 0 THEN 0 - x ELSE x
      q == 2 ^ Max(0, BitLength(a) - SignificandBits)
      significand == a \div q
      rest == a - significand * q
      up == 2 * rest > q \/ (2 * rest = q /\ significand % 2 = 1)
      v == IF up THEN (significand + 1) * q ELSE significand * q
  IN IF x < 0 THEN 0 - v ELSE v

NumberAdd(a, b) == RoundNumber(a + b)
NumberSub(a, b) == RoundNumber(a - b)

RefundIds == 1..Len(refunds)

\* rs.filter(r => statuses.includes(r.status)).reduce((sum, r) => sum +
\* r.refund_amount, sum) over the refunds of one booking, in stored order.
RECURSIVE ReduceRefundAmount(_, _, _, _)
ReduceRefundAmount(rs, bookingId, statuses, sum) ==
  IF rs = <<>> THEN sum
  ELSE LET r == Head(rs)
       IN ReduceRefundAmount(Tail(rs), bookingId, statuses,
            IF r.booking_id = bookingId /\ r.status \in statuses
              THEN NumberAdd(sum, r.refund_amount) ELSE sum)

\* Payment.findOne({ booking_id, payment_status: 'succeeded' }): Null when
\* there is none.
SucceededPaymentOf(bookingId) ==
  LET found == {i \in PaymentIds : /\ payments[i].booking_id = bookingId
                                   /\ payments[i].payment_status = "succeeded"}
  IN IF found = {} THEN Null ELSE CHOOSE i \in found : \A j \in found : i <= j

\* refund_amount is Null when the body has none.
requestRefundResult(u, bookingId, reason, refund_amount) ==
  IF bookingId \notin BookingIds THEN Reject(404, bookingId)
  ELSE
    LET booking == bookings[bookingId]
        totalRefunded == ReduceRefundAmount(refunds, bookingId, {"completed"}, 0)
        pendingRefunds == ReduceRefundAmount(refunds, bookingId, {"pending", "processing"}, 0)
        maxRefundable == NumberSub(NumberSub(booking.total_amount, totalRefunded), pendingRefunds)
        asked == IF refund_amount = Null \/ refund_amount = 0 THEN booking.total_amount
                 ELSE refund_amount
        calculatedRefundAmount == IF asked > maxRefundable THEN maxRefundable ELSE asked
        payment == SucceededPaymentOf(bookingId)
    IN IF booking.user_id # u THEN Reject(403, bookingId)
       ELSE IF booking.payment_status # "paid" THEN Reject(400, bookingId)
       ELSE IF totalRefunded >= booking.total_amount THEN Reject(409, bookingId)
       ELSE IF calculatedRefundAmount <= 0 THEN Reject(400, bookingId)
       ELSE IF payment = Null THEN Reject(404, bookingId)
       ELSE [Result(201, Len(refunds) + 1, calculatedRefundAmount, maxRefundable,
                    bookings, payments, promos)
               EXCEPT !.refunds = Append(refunds,
                 [booking_id |-> bookingId, payment_id |-> payment,
                  refund_amount |-> calculatedRefundAmount, refund_reason |-> reason,
                  status |-> "pending"])]

requestRefund(u, bookingId, reason, refund_amount) ==
  /\ Len(refunds) < MaxRefunds
  /\ Serve(requestRefundResult(u, bookingId, reason, refund_amount))

\* A handler that writes one refund's status and nothing else.
RefundStatusResult(id, status) ==
  [Result(200, id, 0, 0, bookings, payments, promos)
     EXCEPT !.refunds = [refunds EXCEPT ![id].status = status]]

\* The three handlers below are behind authorize('admin').
approveRefundResult(u, id) ==
  IF user_type[u] # "admin" THEN Reject(403, id)
  ELSE IF id \notin RefundIds THEN Reject(404, id)
  ELSE IF refunds[id].status # "pending" THEN Reject(409, id)
  ELSE RefundStatusResult(id, "processing")

approveRefund(u, id) == Serve(approveRefundResult(u, id))

\* The rejection reason is appended to refund_reason, which the model
\* keeps as it was.
rejectRefundResult(u, id) ==
  IF user_type[u] # "admin" THEN Reject(403, id)
  ELSE IF id \notin RefundIds THEN Reject(404, id)
  ELSE IF refunds[id].status # "pending" THEN Reject(409, id)
  ELSE RefundStatusResult(id, "cancelled")

rejectRefund(u, id) == Serve(rejectRefundResult(u, id))

\* simulateRefundProcessing always resolves with success: true.
processRefundResult(u, id) ==
  IF user_type[u] # "admin" THEN Reject(403, id)
  ELSE IF id \notin RefundIds THEN Reject(404, id)
  ELSE IF refunds[id].status # "processing" THEN Reject(409, id)
  ELSE
    LET completed == [refunds EXCEPT ![id].status = "completed"]
        bookingId == refunds[id].booking_id
        totalRefunded == ReduceRefundAmount(completed, bookingId, {"completed"}, 0)
    IN [Result(200, id, totalRefunded, 0,
               IF totalRefunded >= bookings[bookingId].total_amount
                 THEN [bookings EXCEPT ![bookingId].payment_status = "refunded"]
                 ELSE bookings,
               payments, promos)
          EXCEPT !.refunds = completed]

processRefund(u, id) == Serve(processRefundResult(u, id))

\* The totals of the bookings refunds are asked for: one a step below a
\* Number whose neighbours are two steps apart, one among exact neighbours.
RefundTotals == {3 * 2 ^ (SignificandBits - 1), 3 * 2 ^ (SignificandBits - 2)}
RefundAmounts == {Null, 0, 1, 2, 2 ^ SignificandBits}
RefundUsers == {"alice", "bob", "root"}

RequestRefundStep ==
  \E u \in RefundUsers, bookingId \in IdInputs, refund_amount \in RefundAmounts :
    requestRefund(u, bookingId, "reason", refund_amount)

ApproveRefundStep ==
  \E u \in RefundUsers, id \in 1..MaxRefunds : approveRefund(u, id)

RejectRefundStep ==
  \E u \in RefundUsers, id \in 1..MaxRefunds : rejectRefund(u, id)

ProcessRefundStep ==
  \E u \in RefundUsers, id \in 1..MaxRefunds : processRefund(u, id)

\* One booking of alice's that processPayment has marked paid.
InitRefundFlow ==
  /\ InitOther
  /\ now = 0
  /\ \E total \in RefundTotals :
       /\ bookings = MarkPaid(<<NewBooking("alice", 1, "v1", 1, 1 + Hours(1), total, 0, total)>>, 1)
       /\ payments = <<[booking_id |-> 1, user_id |-> "alice", amount |-> total,
                        payment_status |-> "succeeded"]>>
  /\ promos = promoCodeSchema
  /\ refunds = <<>>
  /\ inflight = {}
  /\ reply = Reply("none", Undefined, 0, 0, 0, 0)

NextRefundFlow ==
  \/ RequestRefundStep
  \/ ApproveRefundStep
  \/ RejectRefundStep
  \/ ProcessRefundStep

SpecRefundFlow == InitRefundFlow /\ [][NextRefundFlow]_vars

\* ------------------------------------------------------ vehicles
UserVehicleIds == 1..Len(vehicles)
validVehicleTypes == {"car", "suv", "truck", "van", "motorcycle", "bicycle", "rv", "trailer"}
validVehicleSizes == {"small", "medium", "large", "extra_large"}

\* More values of a JSON body: the booleans, and a string that is no number.
JsonTrue == [type |-> "boolean", n |-> 1]
JsonFalse == [type |-> "boolean", n |-> 0]
JsonText == [type |-> "string", n |-> NaN]

\* if (v): undefined, false and 0 are not, a string that is not empty is.
Truthy(v) ==
  CASE v.type = "undefined" -> FALSE
    [] v.type = "string" -> TRUE
    [] OTHER -> v.n # 0

\* parseInt of a number or of a string: NaN for a string with no digits.
parseInt(v) == v.n

\* year < 1900 || year > 2100, false of NaN.
VehicleYearRefused(vehicle_year) ==
  LET year == parseInt(vehicle_year)
  IN year # NaN /\ (year < 1900 \/ year > 2100)

\* What userVehicleSchema makes of vehicle_year: a Number between 1900 and
\* 2100 or nothing; a string that is no number is a CastError.
VehicleYearValid(vehicle_year) ==
  \/ vehicle_year.type = "undefined"
  \/ /\ vehicle_year.n # NaN
     /\ vehicle_year.n >= 1900
     /\ vehicle_year.n <= 2100

StoredVehicleYear(vehicle_year) ==
  IF vehicle_year.type = "undefined" THEN Null ELSE CastNumber(vehicle_year)

\* UserVehicle.updateMany({ user_id, _id: { $ne: id }, is_default: true },
\* { is_default: false }); id is 0 where the filter has no _id.
UnsetDefaults(vs, userId, id) ==
  [i \in DOMAIN vs |->
     IF vs[i].user_id = userId /\ i # id /\ vs[i].is_default
       THEN [vs[i] EXCEPT !.is_default = FALSE] ELSE vs[i]]

VehiclesOf(vs, userId) == {i \in DOMAIN vs : vs[i].user_id = userId}

\* What a vehicle handler answers and what it leaves in the collection.
VehicleResult(code, vs) == [code |-> code, vehicles |-> vs]
VehicleReject(code) == VehicleResult(code, vehicles)

ServeVehicle(r) ==
  /\ vehicles' = r.vehicles
  /\ UNCHANGED <<bookingVars, availability, applyVars, idemVars>>

\* license_plate, make and model are strings the route has required.
addVehicleResult(u, userId, vehicle_type, vehicle_size, vehicle_year, is_default) ==
  IF u # userId THEN VehicleReject(403)
  ELSE IF vehicle_type \notin validVehicleTypes THEN VehicleReject(400)
  ELSE IF vehicle_size \notin validVehicleSizes THEN VehicleReject(400)
  ELSE IF Truthy(vehicle_year) /\ VehicleYearRefused(vehicle_year) THEN VehicleReject(400)
  ELSE
    LET unset == IF Truthy(is_default) THEN UnsetDefaults(vehicles, userId, 0) ELSE vehicles
        existingVehiclesCount == Cardinality(VehiclesOf(unset, userId))
        shouldBeDefault == IF existingVehiclesCount = 0 THEN TRUE ELSE Truthy(is_default)
        year == IF Truthy(vehicle_year) THEN vehicle_year ELSE JsonAbsent
    IN IF ~VehicleYearValid(year) THEN VehicleResult(500, unset)
       ELSE VehicleResult(201, Append(unset,
              [user_id |-> userId, vehicle_type |-> vehicle_type, vehicle_size |-> vehicle_size,
               vehicle_year |-> StoredVehicleYear(year), is_default |-> shouldBeDefault]))

addVehicle(u, userId, vehicle_type, vehicle_size, vehicle_year, is_default) ==
  /\ Len(vehicles) < MaxVehicles
  /\ ServeVehicle(addVehicleResult(u, userId, vehicle_type, vehicle_size, vehicle_year, is_default))

\* vehicle_type and vehicle_size are Undefined when the body has none.
updateVehicleResult(u, id, vehicle_type, vehicle_size, vehicle_year, is_default) ==
  IF id \notin UserVehicleIds THEN VehicleReject(404)
  ELSE IF vehicles[id].user_id # u THEN VehicleReject(403)
  ELSE IF vehicle_type # Undefined /\ vehicle_type \notin validVehicleTypes THEN VehicleReject(400)
  ELSE IF vehicle_size # Undefined /\ vehicle_size \notin validVehicleSizes THEN VehicleReject(400)
  ELSE IF vehicle_year.type # "undefined" /\ VehicleYearRefused(vehicle_year) THEN VehicleReject(400)
  ELSE
    LET setsDefault == is_default = JsonTrue
        unset == IF setsDefault THEN UnsetDefaults(vehicles, vehicles[id].user_id, id) ELSE vehicles
        vehicle ==
          [vehicles[id] EXCEPT
             !.vehicle_type = IF vehicle_type # Undefined THEN vehicle_type ELSE @,
             !.vehicle_size = IF vehicle_size # Undefined THEN vehicle_size ELSE @,
             !.vehicle_year = IF vehicle_year.type # "undefined" /\ VehicleYearValid(vehicle_year)
                                THEN StoredVehicleYear(vehicle_year) ELSE @,
             !.is_default = IF setsDefault THEN TRUE ELSE @]
    IN IF ~VehicleYearValid(vehicle_year) THEN VehicleResult(500, unset)
       ELSE VehicleResult(200, [unset EXCEPT ![id] = vehicle])

updateVehicle(u, id, vehicle_type, vehicle_size, vehicle_year, is_default) ==
  ServeVehicle(updateVehicleResult(u, id, vehicle_type, vehicle_size, vehicle_year, is_default))

\* findOne({ user_id }).sort({ created_at: -1 }): the user's vehicle that
\* was created last, 0 when there is none.
LatestVehicleOf(vs, userId) ==
  IF VehiclesOf(vs, userId) = {} THEN 0
  ELSE CHOOSE i \in VehiclesOf(vs, userId) : \A j \in VehiclesOf(vs, userId) : j <= i

deleteVehicleResult(u, id) ==
  IF id \notin UserVehicleIds THEN VehicleReject(404)
  ELSE IF vehicles[id].user_id # u THEN VehicleReject(403)
  ELSE
    LET wasDefault == vehicles[id].is_default
        userId == vehicles[id].user_id
        rest == RemoveAt(vehicles, id)
        nextVehicle == LatestVehicleOf(rest, userId)
    IN IF wasDefault /\ nextVehicle # 0
         THEN VehicleResult(200, [rest EXCEPT ![nextVehicle].is_default = TRUE])
         ELSE VehicleResult(200, rest)

deleteVehicle(u, id) == ServeVehicle(deleteVehicleResult(u, id))

setDefaultVehicleResult(u, id) ==
  IF id \notin UserVehicleIds THEN VehicleReject(404)
  ELSE IF vehicles[id].user_id # u THEN VehicleReject(403)
  ELSE IF vehicles[id].is_default THEN VehicleReject(200)
  ELSE VehicleResult(200,
         [UnsetDefaults(vehicles, vehicles[id].user_id, 0) EXCEPT ![id].is_default = TRUE])

setDefaultVehicle(u, id) == ServeVehicle(setDefaultVehicleResult(u, id))

VehicleUsers == {"alice", "bob"}
VehicleTypes == {"car", "boat"}
VehicleSizes == {"small", Undefined}
VehicleYears == {JsonAbsent, JsonNumber(2020), JsonNumber(1800), JsonText}
VehicleDefaults == {JsonAbsent, JsonTrue, JsonFalse}

AddVehicleStep ==
  \E u \in VehicleUsers, userId \in VehicleUsers, vehicle_type \in VehicleTypes,
     vehicle_size \in VehicleSizes, vehicle_year \in VehicleYears, is_default \in VehicleDefaults :
    addVehicle(u, userId, vehicle_type, vehicle_size, vehicle_year, is_default)

UpdateVehicleStep ==
  \E u \in VehicleUsers, id \in 1..MaxVehicles, vehicle_type \in {Undefined, "suv", "boat"},
     vehicle_size \in {Undefined, "large"}, vehicle_year \in VehicleYears,
     is_default \in VehicleDefaults :
    updateVehicle(u, id, vehicle_type, vehicle_size, vehicle_year, is_default)

DeleteVehicleStep ==
  \E u \in VehicleUsers, id \in 1..MaxVehicles : deleteVehicle(u, id)

SetDefaultVehicleStep ==
  \E u \in VehicleUsers, id \in 1..MaxVehicles : setDefaultVehicle(u, id)

NextVehicles ==
  \/ AddVehicleStep
  \/ UpdateVehicleStep
  \/ DeleteVehicleStep
  \/ SetDefaultVehicleStep

SpecVehicles == Init /\ [][NextVehicles]_vars

\* ------------------------------------------------------ refunds alone
\* Start times around the boundaries of the cancellation policy, and inside
\* the clock's range, where the booking has started.
RefundStarts ==
  (1..MaxTime) \cup ((Hours(24) - 1)..(Hours(24) + MaxTime + 1))
    \cup ((Hours(48) - 1)..(Hours(48) + MaxTime + 1))

\* One booking that createBooking stored ahead of its start time.
InitRefund ==
  /\ InitOther
  /\ now = 0
  /\ \E s \in RefundStarts :
       LET totalPrice == calculateBookingPrice(parkingSpaceSchema[1], Hours(1))
       IN bookings = <<NewBooking("alice", 1, "v1", s, s + Hours(1), totalPrice, 0, totalPrice)>>
  /\ payments = <<>>
  /\ promos = promoCodeSchema
  /\ refunds = <<>>
  /\ inflight = {}
  /\ reply = Reply("none", Undefined, 0, 0, 0, 0)

\* ------------------------------------------------------ specifications
\* Every handler, one request at a time.
Next ==
  \/ Tick
  \/ CreateBookingStep
  \/ CreatePromoStep
  \/ UpdateBookingStep
  \/ CancelBookingStep
  \/ CheckInStep
  \/ CheckOutStep
  \/ ExtendBookingStep
  \/ ProcessPaymentStep
  \/ VerifyPaymentStep
  \/ PaymentWebhookStep
  \/ ValidatePromoCodeStep

Spec == Init /\ [][Next]_vars

\* Up to MaxBookings bookings from reservation to check-out, every payment
\* succeeding.
NextBooking ==
  \/ Tick
  \/ CreateBookingStep
  \/ CancelBookingStep
  \/ ExtendBookingStep
  \/ PaymentSuccessStep
  \/ CheckInStep
  \/ CheckOutStep

SpecBooking == Init /\ [][NextBooking]_vars

\* The life of one booking, from reservation to check-out.
NextLifecycle ==
  \/ Tick
  \/ CreateFirstStep
  \/ UpdateBookingStep
  \/ CancelBookingStep
  \/ CheckInStep
  \/ CheckOutStep
  \/ ExtendBookingStep
  \/ ProcessPaymentStep
  \/ VerifyPaymentStep
  \/ PaymentWebhookStep

SpecLifecycle == Init /\ [][NextLifecycle]_vars

\* Promo codes: bookings made with one, and validatePromoCode.
NextPromo ==
  \/ Tick
  \/ CreatePromoStep
  \/ ValidatePromoCodeStep

SpecPromo == Init /\ [][NextPromo]_vars

\* createBooking requests that interleave between check and write.
NextRace ==
  \/ Tick
  \/ CreateCheckStep
  \/ CreateWriteStep
  \/ CancelBookingStep

SpecRace == Init /\ [][NextRace]_vars

\* calculateBookingPrice as a function of its arguments.
NextPrice == PriceStep

\* Requests with Idempotency-Key headers that interleave at the awaits of
\* the handler behind checkIdempotency.
NextIdempotency ==
  \/ CheckIdempotencyStep
  \/ HandlerSendStep
  \/ IdempotencyExpireStep

SpecIdempotency == Init /\ [][NextIdempotency]_vars

\* applyPromoCode requests that interleave at their awaits.
NextApply ==
  \/ Tick
  \/ ApplyFindStep
  \/ ApplyCheckStep
  \/ ApplyCreateStep
  \/ ApplySaveStep

SpecApply == InitApply /\ [][NextApply]_vars

\* The availability handlers, one request at a time.
NextAvailability ==
  \/ CreateAvailabilityStep
  \/ UpdateAvailabilityStep
  \/ DeleteAvailabilityStep
  \/ BulkCreateAvailabilityStep

SpecAvailability == Init /\ [][NextAvailability]_vars

\* Payment and cancellation of a booking made days ahead.
NextRefund ==
  \/ Tick
  \/ PaymentSuccessStep
  \/ CancelBookingStep

SpecRefund == InitRefund /\ [][NextRefund]_vars

SpecPrice == Init /\ [][NextPrice]_vars

\* ================================================================ claims
ActiveStatuses == {"pending", "confirmed", "active"}
Overlap(S, E, s, e) == S < e /\ E > s

\* C1: no two bookings of one space whose statuses are both outside
\* {cancelled, completed, no_show} have overlapping intervals.  The code
\* breaks it: a payment success confirms a booking whatever its status, a
\* cancelled one included, over the booking that took its place.
C1_NoActiveOverlap ==
  \A i \in BookingIds, j \in BookingIds :
    (/\ i < j
     /\ bookings[i].space_id = bookings[j].space_id
     /\ bookings[i].status \notin InactiveStatuses
     /\ bookings[j].status \notin InactiveStatuses)
    => ~Overlap(bookings[i].start_time, bookings[i].end_time,
                bookings[j].start_time, bookings[j].end_time)

\* The createBooking requests the conflict claims range over.
ConflictRequests ==
  [u : {"alice", "bob"}, space_id : SpaceIds, vehicle_id : {"v1", "v2"}, s : Times, e : Times]

RequestResult(req) ==
  createBookingResult(req.u, req.space_id, req.vehicle_id, req.s, req.e, Undefined)

\* The bookings of the request's space in status pending, confirmed or
\* active that overlap the request's interval.
Blocking(req) ==
  {i \in BookingIds :
     /\ bookings[i].space_id = req.space_id
     /\ bookings[i].status \in ActiveStatuses
     /\ Overlap(bookings[i].start_time, bookings[i].end_time, req.s, req.e)}

Touching(req) ==
  {i \in BookingIds :
     /\ bookings[i].space_id = req.space_id
     /\ bookings[i].status \in ActiveStatuses
     /\ bookings[i].end_time = req.s}

C3_FilterIsOverlap ==
  \A i \in BookingIds, space_id \in SpaceIds, s \in Times, e \in Times, x \in IdInputs \cup {Null} :
    (s < e /\ bookings[i].start_time < bookings[i].end_time) =>
      (i \in ConflictingBookings(bookings, space_id, s, e, x)
        <=> /\ bookings[i].space_id = space_id
            /\ bookings[i].status \notin InactiveStatuses
            /\ i # x
            /\ bookings[i].start_time < e
            /\ bookings[i].end_time > s)

\* A cancelled booking and the booking made over it: the filter on the
\* second's interval selects the second alone, nothing when the second is
\* excluded, and nothing on the interval that starts where the second ends.
C3_Witness ==
  \E i \in BookingIds, j \in BookingIds :
    /\ bookings[i].status = "cancelled"
    /\ bookings[j].status \in ActiveStatuses
    /\ bookings[i].space_id = bookings[j].space_id
    /\ Overlap(bookings[i].start_time, bookings[i].end_time, bookings[j].start_time, bookings[j].end_time)
    /\ ConflictingBookings(bookings, bookings[j].space_id, bookings[j].start_time, bookings[j].end_time, Null) = {j}
    /\ ConflictingBookings(bookings, bookings[j].space_id, bookings[j].start_time, bookings[j].end_time, j) = {}
    /\ bookings[j].end_time < MaxTime
    /\ ConflictingBookings(bookings, bookings[j].space_id, bookings[j].end_time, MaxTime, Null) = {}

\* C4: a booking is created pending and its status changes only along
\* pending -> confirmed, confirmed -> confirmed, pending -> cancelled,
\* confirmed -> cancelled, confirmed -> active, confirmed -> no_show,
\* active -> completed.  The code breaks it: a payment success confirms a
\* cancelled, completed, no_show or active booking, and cancelBooking
\* cancels an active one.
AllowedStatusChanges ==
  {<<"pending", "confirmed">>, <<"confirmed", "confirmed">>, <<"pending", "cancelled">>,
   <<"confirmed", "cancelled">>, <<"confirmed", "active">>, <<"confirmed", "no_show">>,
   <<"active", "completed">>}

StatusChangeAllowed ==
  /\ Len(bookings') >= Len(bookings)
  /\ \A i \in 1..Len(bookings') :
       IF i \in BookingIds
         THEN \/ bookings'[i].status = bookings[i].status
              \/ <<bookings[i].status, bookings'[i].status>> \in AllowedStatusChanges
         ELSE bookings'[i].status = "pending"

C4_OnlyAllowedChanges == [][StatusChangeAllowed]_vars

\* C5: a createBooking request that has passed the conflict check writes
\* its booking whatever has been stored since: the write answers 201 and
\* appends the request's booking in status pending.  Hence two interleaved
\* requests for overlapping intervals of one space are both stored.
C5_CheckedRequestIsStored ==
  \A req \in inflight :
    LET r == InflightWrite(req)
    IN /\ r.code = 201
       /\ Len(r.bookings) = Len(bookings) + 1
       /\ r.bookings[Len(r.bookings)].status = "pending"
       /\ r.bookings[Len(r.bookings)].space_id = req.space_id
       /\ r.bookings[Len(r.bookings)].start_time = req.s
       /\ r.bookings[Len(r.bookings)].end_time = req.e

\* Two overlapping pending bookings on one space, both written.
C5_Witness ==
  \E i \in BookingIds, j \in BookingIds :
    /\ i < j
    /\ bookings[i].space_id = bookings[j].space_id
    /\ bookings[i].status = "pending"
    /\ bookings[j].status = "pending"
    /\ Overlap(bookings[i].start_time, bookings[i].end_time, bookings[j].start_time, bookings[j].end_time)
    /\ inflight = {}

\* C6: calculateBookingPrice is hourly_rate x hours up to 24 hours,
\* daily_rate x ceil(hours / 24) above 24 and up to 720 hours, monthly_rate
\* x ceil(hours / 720) above; exactly 24 hours is on the hourly tier, and a
\* duration above 24 hours and up to 48 is billed 2 days.
C6_PriceTiers ==
  ReplyOp = "calculateBookingPrice" =>
    LET d == ReplyAmount
        sp == parkingSpaceSchema[ReplySpace]
        days == CHOOSE n \in 1..30 : (n - 1) * Hours(24) < d /\ d <= n * Hours(24)
        months == CHOOSE n \in 1..12 : (n - 1) * Hours(720) < d /\ d <= n * Hours(720)
    IN /\ d <= Hours(24) => ReplyVal * UnitsPerHour = Money(sp.hourly_rate) * d
       /\ (Hours(24) < d /\ d <= Hours(720)) => ReplyVal = Money(sp.daily_rate * days)
       /\ d > Hours(720) => ReplyVal = Money(sp.monthly_rate * months)
       /\ d = Hours(24) => ReplyVal = Money(sp.hourly_rate * 24)
       /\ (Hours(24) < d /\ d <= Hours(48)) => ReplyVal = Money(sp.daily_rate * 2)

\* The price of the shortest duration above 24 hours: 2 days.
C6_Witness ==
  /\ ReplyOp = "calculateBookingPrice"
  /\ ReplyAmount = Hours(24) + 1
  /\ ReplyVal = Money(parkingSpaceSchema[ReplySpace].daily_rate * 2)

\* What the promo claims range over: alice's requests on space 1.
PromoRequestResult(s, e, code) == createBookingResult("alice", 1, "v1", s, e, code)

PromoInWindow(code) == promos[code].valid_from <= now /\ now <= promos[code].valid_to

PromoExhausted(code) ==
  /\ promos[code].usage_limit_total # Null
  /\ promos[code].usage_count >= promos[code].usage_limit_total

\* C7: a booking created with a valid percentage promo stores
\* discount_amount = base_price x value / 100, at most max_discount_amount
\* when that is set, and total_amount = base_price - discount_amount.  The
\* code breaks it: createBooking reads promo.discount_type, which the promo
\* document does not have, and stores discount 0.
C7_PercentageDiscount ==
  \A s \in Times, e \in Times, code \in PromoCodes :
    LET r == PromoRequestResult(s, e, code)
        p == promos[code]
        b == r.bookings[Len(r.bookings)]
        pct == (b.base_price * p.discount_value) \div 100
        expected == IF p.max_discount_amount # Null /\ pct > p.max_discount_amount
                      THEN p.max_discount_amount ELSE pct
    IN (/\ r.code = 201
        /\ p.promo_type = "percentage"
        /\ p.is_active /\ PromoInWindow(code) /\ ~PromoExhausted(code))
       => /\ b.discount_amount = expected
          /\ b.total_amount = b.base_price - expected

C9_TotalAmount ==
  /\ \A i \in BookingIds :
       /\ bookings[i].total_amount >= 0
       /\ bookings[i].status # "completed" =>
            bookings[i].total_amount = bookings[i].base_price - bookings[i].discount_amount
  /\ \A u \in Users, i \in BookingIds :
       LET r == checkOutResult(u, i)
       IN r.code = 200 =>
            r.bookings[i].total_amount = bookings[i].base_price - bookings[i].discount_amount + r.val

\* C10: createBooking with a promo code that is inactive, outside its
\* validity window or used up is rejected and writes nothing.  The code
\* breaks it: the usage check reads promo.max_uses and promo.used_count,
\* which the promo document does not have, so a used-up code passes.
C10_InvalidPromoRejected ==
  \A s \in Times, e \in Times, code \in PromoCodes :
    LET r == PromoRequestResult(s, e, code)
    IN (~promos[code].is_active \/ ~PromoInWindow(code) \/ PromoExhausted(code)) =>
         r.code >= 400 /\ Unchanged(r)

\* C11: a payment success (processPayment, verifyPayment, paymentWebhook)
\* changes a booking only when its status is pending or confirmed, and then
\* makes it confirmed and paid; a failed processPayment leaves the bookings
\* as they are; processPayment on a paid booking is answered 409 and creates
\* no payment.  The code breaks the first part: the three handlers confirm
\* a booking of any status.
PaymentOutcomes(bs) ==
  \A i \in BookingIds :
    bs[i] # bookings[i] =>
      /\ bookings[i].status \in {"pending", "confirmed"}
      /\ bs[i] = [bookings[i] EXCEPT !.status = "confirmed", !.payment_status = "paid"]

C11_PaymentGuarded ==
  /\ \A u \in Users, id \in BookingIds : \A amount \in PaymentAmounts(id) :
       /\ PaymentOutcomes(processPaymentResult(u, id, amount, TRUE).bookings)
       /\ processPaymentResult(u, id, amount, FALSE).bookings = bookings
       /\ bookings[id].payment_status = "paid" /\ amount # 0 =>
            /\ processPaymentResult(u, id, amount, TRUE).code \in {403, 409}
            /\ Unchanged(processPaymentResult(u, id, amount, TRUE))
  /\ \A u \in Users, id \in PaymentIds, txn \in 1..(MaxPayments + 1) :
       PaymentOutcomes(verifyPaymentResult(u, id, txn).bookings)
  /\ \A event_type \in WebhookEvents, id \in PaymentIds :
       PaymentOutcomes(paymentWebhookResult(event_type, id).bookings)

VerificationCodes == {Undefined, "1234"}

\* C12: checkIn on a confirmed booking by the owner's user or an admin
\* makes it active exactly when start - 1h <= now <= start + 1h and a
\* supplied verification code equals the stored one; before start - 1h the
\* request is rejected and nothing changes.  The code breaks it: no booking
\* has a stored code, and any supplied code is accepted.
C12_CheckInWindow ==
  \A u \in Users, id \in BookingIds, verification_code \in VerificationCodes :
    LET b == bookings[id]
        r == checkInResult(u, id, verification_code)
    IN (IsOwnerOrAdmin(u, b) /\ b.status = "confirmed") =>
         /\ (r.code = 200 /\ r.bookings = [bookings EXCEPT ![id].status = "active"])
              <=> /\ b.start_time - Hours(1) <= now
                  /\ now <= b.start_time + Hours(1)
                  /\ (verification_code # Undefined => verification_code = StoredVerificationCode(b))
         /\ now < b.start_time - Hours(1) => r.code >= 400 /\ Unchanged(r)

\* A booking newly in status no_show was confirmed and its check-in window
\* had closed.
NoShowOnlyLate ==
  \A i \in BookingIds :
    (i <= Len(bookings') /\ bookings'[i].status = "no_show" /\ bookings[i].status # "no_show") =>
      /\ bookings[i].status = "confirmed"
      /\ now > bookings[i].start_time + Hours(1)

\* Late check-in attempts on confirmed bookings (those of any requester, or
\* only those of the owner's user and of admins) are answered with an error
\* and leave the booking no_show, nothing else changed.
LateCheckInMarks(authorizedOnly) ==
  \A u \in Users, id \in BookingIds, verification_code \in VerificationCodes :
    LET r == checkInResult(u, id, verification_code)
    IN (/\ bookings[id].status = "confirmed"
        /\ now > bookings[id].start_time + Hours(1)
        /\ (authorizedOnly => IsOwnerOrAdmin(u, bookings[id]))) =>
         /\ r.code >= 400
         /\ r.bookings = [bookings EXCEPT ![id].status = "no_show"]

\* C13 as stated: every checkIn attempt on a confirmed booking after
\* start + 1h is rejected and makes the booking no_show; no_show is set in
\* no other case.
C13_AnyLateAttempt == [][NoShowOnlyLate /\ LateCheckInMarks(FALSE)]_vars

\* C13, amended: a checkIn attempt by the user account of the space's owner
\* or by an admin on a confirmed booking after start + 1h is rejected and
\* makes the booking no_show (any other requester is answered 403 and the
\* booking stays confirmed); no_show is never set at now <= start + 1h nor
\* on a booking that is not confirmed.
C13_LateCheckInNoShow == [][NoShowOnlyLate /\ LateCheckInMarks(TRUE)]_vars

\* A booking is no_show after its window closed.
C13_Witness ==
  \E i \in BookingIds :
    bookings[i].status = "no_show" /\ now > bookings[i].start_time + Hours(1)

\* C14: checkOut of an active booking by the owner's user or an admin
\* succeeds; after the end time its overtime charge is the started overtime
\* hours x hourly_rate x 1.5 and the stored total_amount grows by exactly
\* that charge, up to the end time the total is unchanged; checkOut of a
\* booking that is not active is rejected and changes nothing.
C14_CheckOutOvertime ==
  \A u \in Users, id \in BookingIds :
    LET b == bookings[id]
        r == checkOutResult(u, id)
        charge == IF now > b.end_time
                    THEN (CeilDiv(now - b.end_time, UnitsPerHour) * Money(parkingSpaceSchema[b.space_id].hourly_rate) * 3) \div 2
                    ELSE 0
    IN /\ b.status # "active" => r.code >= 400 /\ Unchanged(r)
       /\ (b.status = "active" /\ IsOwnerOrAdmin(u, b)) =>
            /\ r.code = 200
            /\ r.val = charge
            /\ r.bookings[id].total_amount = b.total_amount + charge

\* C15: extendBooking succeeds only for a confirmed or active booking, a
\* new_end_time after the current end_time and no other pending, confirmed
\* or active booking of the space overlapping [end_time, new_end_time); a
\* success writes new_end_time to end_time and nothing else, a rejection
\* writes nothing.
C15_ExtendGuarded ==
  \A u \in Users, id \in BookingIds, new_end_time \in Times :
    LET b == bookings[id]
        r == extendBookingResult(u, id, new_end_time)
        blocked == \E i \in BookingIds :
                     /\ i # id
                     /\ bookings[i].space_id = b.space_id
                     /\ bookings[i].status \in ActiveStatuses
                     /\ Overlap(bookings[i].start_time, bookings[i].end_time, b.end_time, new_end_time)
    IN IF r.code = 200
         THEN /\ b.status \in {"confirmed", "active"}
              /\ new_end_time > b.end_time
              /\ ~blocked
              /\ r.bookings = [bookings EXCEPT ![id].end_time = new_end_time]
              /\ r.payments = payments /\ r.promos = promos
         ELSE Unchanged(r)

\* An extended booking next to a booking of its space that blocks a further
\* extension, or over one that no longer blocks.
C15_Witness ==
  \E i \in BookingIds, j \in BookingIds :
    /\ i # j
    /\ bookings[i].space_id = bookings[j].space_id
    /\ bookings[i].end_time - bookings[i].start_time > bookings[i].duration_hours
    /\ bookings[j].start_time >= bookings[i].start_time

\* C16: a successful extendBooking answers the tiered price of the added
\* interval, adds it to the stored total_amount and appends one record to
\* the stored extension list, whose earlier records stay as they were.
C16_ExtensionCharged ==
  \A u \in Users, id \in BookingIds, new_end_time \in Times :
    LET b == bookings[id]
        r == extendBookingResult(u, id, new_end_time)
        price == calculateBookingPrice(parkingSpaceSchema[b.space_id], new_end_time - b.end_time)
        before == StoredExtensions(b)
        after == StoredExtensions(r.bookings[id])
    IN r.code = 200 =>
         /\ r.val = price
         /\ r.bookings[id].total_amount = b.total_amount + price
         /\ Len(after) = Len(before) + 1
         /\ SubSeq(after, 1, Len(before)) = before

\* C17: a cancellation is answered with refund percentage 100 more than 48
\* hours before the start, 50 more than 24 and up to 48 hours before, 0 up
\* to 24 hours before and 0 once the booking has started (exactly 48 hours
\* gives 50, exactly 24 gives 0), and with a refund amount that is this
\* percentage of the booking's total amount.
C17_RefundPolicy ==
  \A u \in Users, id \in BookingIds :
    LET b == bookings[id]
        r == cancelBookingResult(u, id, Undefined)
        hoursUntilStart == b.start_time - now
        percentage == IF now >= b.start_time THEN 0
                      ELSE IF hoursUntilStart > Hours(48) THEN 100
                      ELSE IF hoursUntilStart > Hours(24) THEN 50
                      ELSE 0
    IN r.code = 200 =>
         /\ r.aux = percentage
         /\ hoursUntilStart = Hours(48) => r.aux = 50
         /\ hoursUntilStart = Hours(24) => r.aux = 0
         /\ r.val * 100 = percentage * b.total_amount

\* C18: cancelling a booking that the payment flow has marked paid, with a
\* refund of more than 0 due, stores exactly one new refund record, pending
\* and for that booking; cancelling a booking that was never paid stores none.
C18_RefundRecorded ==
  \A u \in Users, id \in BookingIds :
    LET b == bookings[id]
        r == cancelBookingResult(u, id, Undefined)
        due == RefundPercentage(b.start_time, now) * b.total_amount
    IN r.code = 200 =>
         /\ (b.payment_status = "paid" /\ due > 0) =>
              /\ Len(r.refunds) = Len(refunds) + 1
              /\ SubSeq(r.refunds, 1, Len(refunds)) = refunds
              /\ r.refunds[Len(r.refunds)].booking_id = id
              /\ r.refunds[Len(r.refunds)].status = "pending"
         /\ b.payment_status = "pending" => r.refunds = refunds

\* C19: cancelBooking is answered Forbidden exactly when the requester is
\* neither the booking's user, nor the user account of the owner of the
\* booked space, nor an admin; a Forbidden answer leaves everything as it was.
C19_CancelPermitted ==
  \A u \in Users, id \in BookingIds :
    LET b == bookings[id]
        r == cancelBookingResult(u, id, Undefined)
        permitted == \/ u = b.user_id
                     \/ u = owner_user_id[parkingSpaceSchema[b.space_id].owner_id]
                     \/ user_type[u] = "admin"
    IN /\ r.code = 403 <=> ~permitted
       /\ r.code = 403 => Unchanged(r)

\* C20: every stored booking ends after it starts, and no createBooking,
\* updateBooking (with start_time, end_time, both or neither) or
\* extendBooking request, whatever its times, stores a booking that does not.
EndAfterStart(bs) == \A i \in 1..Len(bs) : bs[i].end_time > bs[i].start_time

C20_EndAfterStart ==
  /\ EndAfterStart(bookings)
  /\ \A s \in Times, e \in Times :
       EndAfterStart(createBookingResult("alice", 1, "v1", s, e, Undefined).bookings)
  /\ \A id \in BookingIds, s \in Times \cup {Null}, e \in Times \cup {Null} :
       EndAfterStart(updateBookingResult(bookings[id].user_id, id, s, e, Undefined).bookings)
  /\ \A id \in BookingIds, e \in Times :
       EndAfterStart(extendBookingResult(bookings[id].user_id, id, e).bookings)

\* A booking that updateBooking has made shorter than it was created.
C20_Witness ==
  \E i \in BookingIds :
    bookings[i].end_time - bookings[i].start_time < bookings[i].duration_hours

\* C21: every stored availability window has available_from before
\* available_to, and no two stored windows of one space and one day_of_week
\* overlap in time of day.
C21_WindowsDisjoint ==
  /\ \A i \in AvailabilityIds :
       toMinutes(availability[i].available_from) < toMinutes(availability[i].available_to)
  /\ \A i \in AvailabilityIds, j \in AvailabilityIds :
       (/\ i # j
        /\ availability[i].space_id = availability[j].space_id
        /\ availability[i].day_of_week = availability[j].day_of_week) =>
         ~(/\ toMinutes(availability[i].available_from) < toMinutes(availability[j].available_to)
           /\ toMinutes(availability[i].available_to) > toMinutes(availability[j].available_from))

\* The stored windows of a space and a day, other than window excludeId,
\* that overlap [from, to) in minutes since midnight.
OverlappingWindows(spaceId, day, from, to, excludeId) ==
  {i \in AvailabilityIds :
     /\ i # excludeId
     /\ availability[i].space_id = spaceId
     /\ availability[i].day_of_week = day
     /\ toMinutes(from) < toMinutes(availability[i].available_to)
     /\ toMinutes(to) > toMinutes(availability[i].available_from)}

\* The answers of createAvailability and updateAvailability to the requests
\* of the requesters for whom passes holds are 409 exactly when another
\* stored window of the space and the (new) day overlaps the (new) range.
ConflictIffOverlap(passes(_, _)) ==
  /\ \A u \in AvUsers, spaceId \in AvSpaces, day_of_week \in AvDays :
       \A available_from \in AvTimes, available_to \in AvTimes \cup {AvBadTime} :
         LET r == createAvailabilityResult(u, spaceId, day_of_week, available_from, available_to)
             overlap == OverlappingWindows(spaceId, CastNumber(day_of_week),
                                           available_from, available_to, 0) # {}
         IN /\ (passes(u, spaceId) /\ toMinutes(available_from) < toMinutes(available_to)) =>
                 (r.code = 409 <=> overlap)
            /\ r.code # 201 => r.availability = availability
  /\ \A u \in AvUsers, id \in AvailabilityIds, day_of_week \in AvDays \cup {JsonAbsent} :
       \A available_from \in AvTimes \cup {NoTime}, available_to \in AvTimes \cup {NoTime} :
         LET a == availability[id]
             r == updateAvailabilityResult(u, id, day_of_week, available_from, available_to)
             newFrom == IF available_from = NoTime THEN a.available_from ELSE available_from
             newTo == IF available_to = NoTime THEN a.available_to ELSE available_to
             newDay == IF day_of_week = JsonAbsent THEN a.day_of_week ELSE CastNumber(day_of_week)
             overlap == OverlappingWindows(a.space_id, newDay, newFrom, newTo, id) # {}
         IN /\ (passes(u, a.space_id) /\ toMinutes(newFrom) < toMinutes(newTo)) =>
                 (r.code = 409 <=> overlap)
            /\ r.code # 200 => r.availability = availability

AnyRequester(u, spaceId) == TRUE

\* C22 as stated: createAvailability and updateAvailability answer 409 if
\* and only if another stored window of the space and day overlaps.
C22_AlwaysConflict == ConflictIffOverlap(AnyRequester)

\* C22: for a request by the owner's user or an admin with available_from
\* before available_to, createAvailability and updateAvailability answer 409
\* if and only if another stored window of the space and the (new) day
\* overlaps the (new) range in minutes since midnight, the updated window
\* itself never counting; a touching window is no conflict, and a request
\* that is not accepted changes nothing.
C22_ConflictIffOverlap == ConflictIffOverlap(ManagesSpace)

\* Two touching windows of one space and day, 09:00-12:00 and 12:00-14:00.
C22_Witness ==
  \E i \in AvailabilityIds, j \in AvailabilityIds :
    /\ availability[i].space_id = availability[j].space_id
    /\ availability[i].day_of_week = availability[j].day_of_week
    /\ availability[i].available_from = <<9, 0>> /\ availability[i].available_to = <<12, 0>>
    /\ availability[j].available_from = <<12, 0>> /\ availability[j].available_to = <<14, 0>>

\* The entries of a bulk answer r that have no error entry.
BulkAccepted(r, schedules) ==
  {i \in 1..Len(schedules) : \A k \in 1..Len(r.errors) : r.errors[k].index # i - 1}

\* Two entries of a batch name the same day and overlap in time of day.
EntriesOverlap(x, y) ==
  /\ CastNumber(x.day_of_week) = CastNumber(y.day_of_week)
  /\ toMinutes(x.available_from) < toMinutes(y.available_to)
  /\ toMinutes(x.available_to) > toMinutes(y.available_from)

\* An entry that is complete, well-formed and a proper range.
EntryValid(x) ==
  /\ x.day_of_week # JsonAbsent /\ CastNumber(x.day_of_week) \in 0..6
  /\ TimeFormatValid(x.available_from) /\ TimeFormatValid(x.available_to)
  /\ toMinutes(x.available_from) < toMinutes(x.available_to)

\* C23: a bulk request of the owner answers 201 whatever its entries; each
\* index has either one error entry or one created window, never both, the
\* two counts add up to the number of entries, the created windows are the
\* accepted entries appended in order, an entry overlapping an entry accepted
\* earlier in the batch is an error, and a valid entry that overlaps no
\* stored window of the space and no earlier accepted entry is created,
\* whatever failed before it.
C23_BulkPartial ==
  \A spaceId \in AvSpaces, schedules \in AvBatches \ {<<>>} :
    LET r == bulkCreateAvailabilityResult("olga", spaceId, schedules)
        n == Len(schedules)
        accepted == BulkAccepted(r, schedules)
    IN /\ r.code = 201
       /\ Len(r.created) + Len(r.errors) = n
       /\ Cardinality(accepted) = Len(r.created)
       /\ \A k \in 1..Len(r.errors) : r.errors[k].index \in 0..(n - 1)
       /\ \A k \in 1..Len(r.errors), l \in 1..Len(r.errors) :
            r.errors[k].index = r.errors[l].index => k = l
       /\ Len(r.availability) = Len(availability) + Len(r.created)
       /\ SubSeq(r.availability, 1, Len(availability)) = availability
       /\ \A k \in 1..Len(r.created) : r.created[k] = Len(availability) + k
       /\ \A j \in 1..n :
            (\E a \in accepted : a < j /\ EntryValid(schedules[j]) /\ EntriesOverlap(schedules[a], schedules[j]))
              => j \notin accepted
       /\ \A j \in 1..n :
            (/\ EntryValid(schedules[j])
             /\ OverlappingWindows(spaceId, CastNumber(schedules[j].day_of_week),
                                   schedules[j].available_from, schedules[j].available_to, 0) = {}
             /\ \A a \in accepted : a < j => ~EntriesOverlap(schedules[a], schedules[j]))
              => j \in accepted

\* At most one usage record per booking.
OneUsagePerBooking == \A b \in ApplyBookingIds : Cardinality(UsagesOf(b)) <= 1

\* The steps of the requests in flight for a booking that has a usage record
\* answer as ok(code) demands and write nothing.
RecordedBookingRejected(ok(_)) ==
  \A req \in applying :
    (req.pc \in {"check", "create"} /\ UsagesOf(req.booking_id) # {}) =>
      LET r == applyStepResult(req)
      IN ok(r.code) /\ r.promos = promos /\ r.usages = usages

IsConflict(code) == code = 409
IsRejection(code) == code \in {400, 409}

\* C24 as stated: every applyPromoCode request for a booking that has a
\* usage record is answered with a conflict, whatever else is wrong with it.
C24_AlwaysConflict ==
  /\ OneUsagePerBooking
  /\ RecordedBookingRejected(IsConflict)
  /\ \A code \in ApplyCodes, booking_id \in ApplyBookingIds :
       UsagesOf(booking_id) # {} => applyFindResult(code).code \in {0, 409}

\* C24: under any interleaving there is at most one usage record per
\* booking, and a request for a booking that has a usage record never
\* succeeds and changes neither the usage records nor any usage_count: it is
\* answered 404 when its code names no promo code, 400 when its
\* discount_applied is invalid and it has passed the usage lookup, and with
\* a conflict (409) otherwise.
C24_OneUsagePerBooking ==
  /\ OneUsagePerBooking
  /\ RecordedBookingRejected(IsRejection)
  /\ \A req \in applying :
       (req.pc = "check" /\ UsagesOf(req.booking_id) # {}) => applyStepResult(req).code = 409
  /\ \A req \in applying :
       (req.pc = "create" /\ UsagesOf(req.booking_id) # {} /\ req.discount_applied >= 0) =>
         applyStepResult(req).code = 409
  /\ \A req \in applying : req.pc = "save" => UsagesOf(req.booking_id) # {}

\* A request that has passed the usage lookup while another request's record
\* for the same booking was stored.
C24_Witness ==
  \E req \in applying :
    /\ req.pc = "create"
    /\ req.discount_applied >= 0
    /\ UsagesOf(req.booking_id) # {}

\* C25: every promo code's usage_count is the number of its usage records
\* and, where usage_limit_total is set, not above it.
C25_CountIsRecords ==
  \A c \in PromoCodes :
    LET records == {k \in 1..Len(usages) : usages[k].promo_code_id = c}
        pending == {req \in applying : req.pc = "save" /\ req.code = c}
    IN /\ promos[c].usage_count + Cardinality(pending) = Cardinality(records)
       /\ promos[c].usage_limit_total # Null => Cardinality(records) <= promos[c].usage_limit_total

\* C26: while a key is stored no handler runs for it and its entry is not
\* written again, and a request with the key is answered by the middleware:
\* the stored status and response for an equal body, 409 for another body.
C26_HandlerOncePerKey ==
  /\ \A req \in handling : ~idempotencyStore[req.key].has
  /\ \A key \in IdemKeys, body \in IdemBodies :
       idempotencyStore[key].has =>
         LET r == checkIdempotencyResult(key, body)
         IN IF body = idempotencyStore[key].body
              THEN r.status = idempotencyStore[key].status /\ r.response = idempotencyStore[key].response
              ELSE r.status = 409

\* C27: every stored booking's duration_hours is the time between its
\* stored start_time and end_time.
C27_DurationIsInterval ==
  \A i \in BookingIds :
    bookings[i].duration_hours = bookings[i].end_time - bookings[i].start_time

\* C28: each booking has at most one payment record whose payment_status
\* is succeeded.
C28_OneSucceededPayment ==
  \A i \in PaymentIds, j \in PaymentIds :
    (/\ payments[i].booking_id = payments[j].booking_id
     /\ payments[i].payment_status = "succeeded"
     /\ payments[j].payment_status = "succeeded") => i = j

\* The exact sum of the refund_amount of a booking's refunds that are
\* pending, processing or completed.
RECURSIVE SumOfRefunds(_, _)
SumOfRefunds(rs, bookingId) ==
  IF rs = <<>> THEN 0
  ELSE (IF Head(rs).booking_id = bookingId
           /\ Head(rs).status \in {"pending", "processing", "completed"}
          THEN Head(rs).refund_amount ELSE 0) + SumOfRefunds(Tail(rs), bookingId)

RefundsWithinTotal ==
  \A bookingId \in BookingIds :
    SumOfRefunds(refunds, bookingId) <= bookings[bookingId].total_amount

RefundStatusSteps ==
  /\ Len(refunds') >= Len(refunds)
  /\ \A id \in RefundIds :
       refunds'[id].status # refunds[id].status =>
         <<refunds[id].status, refunds'[id].status>> \in
           {<<"pending", "processing">>, <<"pending", "cancelled">>,
            <<"processing", "completed">>}

\* The status half of C29 alone: a refund changes status only pending to
\* processing, pending to cancelled, or processing to completed.
RefundStatusFlow == [][RefundStatusSteps]_vars

\* C29: under requestRefund, approveRefund, rejectRefund and processRefund
\* run one at a time on a booking whose total_amount stays, the refunds of
\* the booking that are pending, processing or completed never sum to more
\* than its total_amount, and a refund changes status only pending to
\* processing, pending to cancelled, or processing to completed.
C29_RefundFlow == []RefundsWithinTotal /\ [][RefundStatusSteps]_vars

DefaultVehiclesOf(userId) ==
  {i \in VehiclesOf(vehicles, userId) : vehicles[i].is_default}

\* C30: under addVehicle, updateVehicle, setDefaultVehicle and deleteVehicle
\* run one at a time, a user who has a vehicle has exactly one vehicle with
\* is_default true, and a user who has none has no default vehicle.
C30_OneDefaultVehicle ==
  \A userId \in VehicleUsers :
    Cardinality(DefaultVehiclesOf(userId)) =
      (IF VehiclesOf(vehicles, userId) = {} THEN 0 ELSE 1)

====
